---- MODULE Spec2Model ----
(***************************************************************************)
(* A model of the record-matching scripts of data-comparison: the DuckDB   *)
(* load-time normalisation (create_optimized_database), the per-key inner  *)
(* join / anti-join counts of the analysis scripts, and the statistics and *)
(* report stage of detailed_match_report.py.                               *)
(*                                                                         *)
(* SQL values: NULL is the empty tuple, a non-null value v is <<v>>.       *)
(* A text is a tuple of one-character strings, an integer is itself.       *)
(***************************************************************************)
EXTENDS Integers, Sequences, FiniteSets, TLC

\* Largest number of rows of either parquet file.
MaxRows == 2

\* Largest count fed to the statistics calculator on its own.
MaxCount == 4

-----------------------------------------------------------------------------
(* SQL scalar values and functions *)

NULL == <<>>

Some(v) == <<v>>

IsNull(x) == x = <<>>

Val(x) == x[1]

\* Python's str.upper / SQL UPPER on one character of the model's alphabet.
Upper(c) ==
  CASE c = "a" -> "A"
    [] c = "b" -> "B"
    [] c = "c" -> "C"
    [] c = "d" -> "D"
    [] c = "e" -> "E"
    [] c = "f" -> "F"
    [] OTHER -> c

UpperText(s) == [i \in DOMAIN s |-> Upper(s[i])]

RECURSIVE LStrip(_)
LStrip(s) == IF s # <<>> /\ Head(s) = " " THEN LStrip(Tail(s)) ELSE s

RECURSIVE RStrip(_)
RStrip(s) ==
  IF s # <<>> /\ s[Len(s)] = " " THEN RStrip(SubSeq(s, 1, Len(s) - 1)) ELSE s

TrimText(s) == RStrip(LStrip(s))

\* SQL UPPER(x): NULL in, NULL out.
UPPER(x) == IF IsNull(x) THEN NULL ELSE Some(UpperText(Val(x)))

\* A TRIM that strips at most one space from each end.
TRIMOnce(x) ==
  IF IsNull(x) THEN NULL
  ELSE LET t == Val(x)
           l == IF t # <<>> /\ Head(t) = " " THEN Tail(t) ELSE t
       IN Some(IF l # <<>> /\ l[Len(l)] = " " THEN SubSeq(l, 1, Len(l) - 1) ELSE l)

\* SQL TRIM(x): strips spaces at both ends; NULL in, NULL out; '' stays ''.
TRIM(x) == IF IsNull(x) THEN NULL ELSE Some(TrimText(Val(x)))

\* SQL x || y: NULL if either operand is NULL.
Concat(x, y) == IF IsNull(x) \/ IsNull(y) THEN NULL ELSE Some(Val(x) \o Val(y))

Digit(n) ==
  CASE n = 0 -> "0" [] n = 1 -> "1" [] n = 2 -> "2" [] n = 3 -> "3"
    [] n = 4 -> "4" [] n = 5 -> "5" [] n = 6 -> "6" [] n = 7 -> "7"
    [] n = 8 -> "8" [] OTHER -> "9"

RECURSIVE Decimal(_)
Decimal(n) == IF n < 10 THEN <<Digit(n)>> ELSE Decimal(n \div 10) \o <<Digit(n % 10)>>

\* SQL CAST(x AS VARCHAR) of a non-negative integer column.
CastVarchar(x) == IF IsNull(x) THEN NULL ELSE Some(Decimal(Val(x)))

SP == Some(<<" ">>)

\* SQL equality used as a join condition: true only for two non-null equal values.
SqlEq(x, y) == ~IsNull(x) /\ ~IsNull(y) /\ x = y

-----------------------------------------------------------------------------
(* The two parquet files *)

\* A DataDirect source row; the columns the scripts read.  Postcode is the
\* one numeric column (the scripts CAST it), every other column is text.
DDRow(ti, fn, sn, em, eh, mo, su, pc) ==
  [Title |-> ti, FirstName |-> fn, Surname |-> sn, Gender |-> NULL,
   EmailStd |-> em, EmailHash |-> eh, Mobile |-> mo, Landline |-> NULL,
   Suburb |-> su, State |-> NULL, Postcode |-> pc]

\* An Ad_consumers source row; every column is text.
ACRow(ti, fn, sn, em, eh, mo, su, pc) ==
  [title |-> ti, given_name_1 |-> fn, surname |-> sn, gender |-> NULL,
   email |-> em, email_sha256 |-> eh, mobile_text |-> mo, landline_text |-> NULL,
   suburb |-> su, state |-> NULL, postcode_text |-> pc]

T(s) == Some(s)

\* The rows a DataDirect file is drawn from: a plain row; the same person with
\* a trailing blank in the first name; the same person in the other letter
\* case; a row with no surname and a blank suburb; and a row with an email and
\* none of title, first name and surname.
DDUniverse ==
  << DDRow(NULL, T(<<"a">>), T(<<"b">>), T(<<"c">>), T(<<"c">>), T(<<"a">>), T(<<"c">>), Some(1)),
     DDRow(NULL, T(<<"a", " ">>), T(<<"b">>), T(<<"b">>), T(<<"b">>), T(<<"b">>), T(<<"c">>), Some(1)),
     DDRow(NULL, T(<<"A">>), T(<<"B">>), T(<<"C">>), T(<<"C">>), T(<<"A">>), T(<<"C">>), Some(1)),
     DDRow(NULL, T(<<"a">>), NULL, NULL, NULL, NULL, T(<<" ">>), NULL),
     DDRow(NULL, NULL, NULL, T(<<"c">>), NULL, NULL, NULL, NULL) >>

\* The same five rows in the Ad_consumers schema (the blank suburb is empty).
ACUniverse ==
  << ACRow(NULL, T(<<"a">>), T(<<"b">>), T(<<"c">>), T(<<"c">>), T(<<"a">>), T(<<"c">>), T(<<"1">>)),
     ACRow(NULL, T(<<"a", " ">>), T(<<"b">>), T(<<"b">>), T(<<"b">>), T(<<"b">>), T(<<"c">>), T(<<"1">>)),
     ACRow(NULL, T(<<"A">>), T(<<"B">>), T(<<"C">>), T(<<"C">>), T(<<"A">>), T(<<"C">>), T(<<"1">>)),
     ACRow(NULL, T(<<"a">>), NULL, NULL, NULL, NULL, T(<<>>), NULL),
     ACRow(NULL, NULL, NULL, T(<<"c">>), NULL, NULL, NULL, NULL) >>

\* Files are bags of rows and every query is a COUNT(*), so the files are
\* enumerated up to the order of their rows.
Picks(n) ==
  UNION { { p \in [1..k -> 1..n] : \A i \in 1..k : \A j \in 1..k : i <= j => p[i] <= p[j] }
          : k \in 0..MaxRows }

DDFiles == { [i \in DOMAIN p |-> DDUniverse[p[i]]] : p \in Picks(Len(DDUniverse)) }

ACFiles == { [i \in DOMAIN p |-> ACUniverse[p[i]]] : p \in Picks(Len(ACUniverse)) }

\* Longest text of a column in the files that exercise the normalisation.
MaxLen == 3

TextChars == {" ", "a", "A", "b"}

\* Longest surname in those files.
MaxSurnameLen == 2

\* NULL and the texts of up to `len` characters.
TextValues(len) == {NULL} \cup UNION { { T(t) : t \in [1..n -> TextChars] } : n \in 0..len }

ColumnValues == TextValues(MaxLen)

SurnameValues == TextValues(MaxSurnameLen)

-----------------------------------------------------------------------------
(* create_optimized_database: the load-time normalisation *)

\* The two values joined with ' ' in an order that does not depend on which
\* operand comes first.
SpAnyOrder(x, y) ==
  IF IsNull(x) \/ IsNull(y) THEN NULL
  ELSE CHOOSE k \in {Concat(Concat(x, SP), y), Concat(Concat(y, SP), x)} : TRUE

\* x || ' ' || y, as in the compound columns.
Sp(x, y) == Concat(Concat(x, SP), y)

\* The SELECT list of CREATE TABLE datadirect.
LoadDD(r) ==
  [title |-> UPPER(TRIM(r.Title)),
   first_name |-> UPPER(TRIM(r.FirstName)),
   surname |-> UPPER(TRIM(r.Surname)),
   gender |-> UPPER(TRIM(r.Gender)),
   email_std |-> UPPER(TRIM(r.EmailStd)),
   email_hash |-> UPPER(TRIM(r.EmailHash)),
   mobile |-> TRIM(r.Mobile),
   landline |-> TRIM(r.Landline),
   suburb |-> UPPER(TRIM(r.Suburb)),
   state |-> UPPER(TRIM(r.State)),
   postcode |-> CastVarchar(r.Postcode),
   full_name |-> UPPER(TRIM(Sp(r.FirstName, r.Surname))),
   name_suburb_postcode |->
     UPPER(TRIM(Sp(Sp(Sp(r.FirstName, r.Surname), r.Suburb), CastVarchar(r.Postcode)))),
   name_suburb_postcode_mobile |->
     UPPER(TRIM(Sp(Sp(Sp(Sp(r.FirstName, r.Surname), r.Suburb),
                      CastVarchar(r.Postcode)), r.Mobile)))]

\* The SELECT list of CREATE TABLE ad_consumers.
LoadAC(r) ==
  [title |-> UPPER(TRIM(r.title)),
   first_name |-> UPPER(TRIM(r.given_name_1)),
   surname |-> UPPER(TRIM(r.surname)),
   gender |-> UPPER(TRIM(r.gender)),
   email_std |-> UPPER(TRIM(r.email)),
   email_hash |-> UPPER(TRIM(r.email_sha256)),
   mobile |-> TRIM(r.mobile_text),
   landline |-> TRIM(r.landline_text),
   suburb |-> UPPER(TRIM(r.suburb)),
   state |-> UPPER(TRIM(r.state)),
   postcode |-> TRIM(r.postcode_text),
   full_name |-> UPPER(TRIM(Sp(r.given_name_1, r.surname))),
   name_suburb_postcode |->
     UPPER(TRIM(Sp(Sp(Sp(r.given_name_1, r.surname), r.suburb), r.postcode_text))),
   name_suburb_postcode_mobile |->
     UPPER(TRIM(Sp(Sp(Sp(Sp(r.given_name_1, r.surname), r.suburb),
                      r.postcode_text), r.mobile_text)))]

\* WHERE Title IS NOT NULL OR FirstName IS NOT NULL OR Surname IS NOT NULL
KeepDD(r) == ~IsNull(r.Title) \/ ~IsNull(r.FirstName) \/ ~IsNull(r.Surname)

KeepAC(r) == ~IsNull(r.title) \/ ~IsNull(r.given_name_1) \/ ~IsNull(r.surname)

\* Character order of the model's alphabet (its code points).
Code(c) ==
  CASE c = " " -> 32 [] c = "0" -> 48 [] c = "1" -> 49 [] c = "A" -> 65
    [] c = "B" -> 66 [] c = "C" -> 67 [] c = "a" -> 97 [] c = "b" -> 98
    [] OTHER -> 99

RECURSIVE TextLess(_, _)
TextLess(s, t) ==
  IF t = <<>> THEN FALSE
  ELSE IF s = <<>> THEN TRUE
  ELSE IF Head(s) # Head(t) THEN Code(Head(s)) < Code(Head(t))
  ELSE TextLess(Tail(s), Tail(t))

\* ORDER BY ... ASC on one column: NULLs sort last.
ValLess(x, y) ==
  IF IsNull(x) THEN FALSE
  ELSE IF IsNull(y) THEN TRUE
  ELSE TextLess(Val(x), Val(y))

RECURSIVE KeyLess(_, _)
KeyLess(k, l) ==
  IF k = <<>> THEN FALSE
  ELSE IF ValLess(Head(k), Head(l)) THEN TRUE
  ELSE IF ValLess(Head(l), Head(k)) THEN FALSE
  ELSE KeyLess(Tail(k), Tail(l))

\* ORDER BY surname, suburb, state, postcode: on the DataDirect side all four
\* name output columns; on the Ad_consumers side the last one is postcode_text.
OrderKeyDD(r) == LET n == LoadDD(r) IN <<n.surname, n.suburb, n.state, n.postcode>>

OrderKeyAC(r) == LET n == LoadAC(r) IN <<n.surname, n.suburb, n.state, r.postcode_text>>

RECURSIVE Insert(_, _)
Insert(sorted, e) ==
  IF sorted = <<>> THEN <<e>>
  ELSE IF KeyLess(e.k, Head(sorted).k) THEN <<e>> \o sorted
  ELSE <<Head(sorted)>> \o Insert(Tail(sorted), e)

RECURSIVE SortKeyed(_)
SortKeyed(s) == IF s = <<>> THEN <<>> ELSE Insert(SortKeyed(SubSeq(s, 1, Len(s) - 1)), s[Len(s)])

Rows(s) == [i \in DOMAIN s |-> s[i].row]

CreateDataDirect(file) ==
  Rows(SortKeyed(SelectSeq([i \in DOMAIN file |->
                              [k |-> OrderKeyDD(file[i]), keep |-> KeepDD(file[i]),
                               row |-> LoadDD(file[i])]],
                           LAMBDA e : e.keep)))

CreateAdConsumers(file) ==
  Rows(SortKeyed(SelectSeq([i \in DOMAIN file |->
                              [k |-> OrderKeyAC(file[i]), keep |-> KeepAC(file[i]),
                               row |-> LoadAC(file[i])]],
                           LAMBDA e : e.keep)))

\* The database file create_optimized_database leaves behind.
create_optimized_database(file1, file2) ==
  [datadirect |-> CreateDataDirect(file1), ad_consumers |-> CreateAdConsumers(file2)]

-----------------------------------------------------------------------------
(* Join conditions, null filters and the Python string surgery on them *)

\* A join condition is a conjunction of equalities d.<d> = a.<a>; a null
\* filter is a conjunction of <alias>.<column> IS NOT NULL tests, written here
\* as <<alias, column>> in the order of the SQL text.
Eq(dcol, acol) == [d |-> dcol, a |-> acol]

CondHolds(cond, d, a) == \A i \in DOMAIN cond : SqlEq(d[cond[i].d], a[cond[i].a])

\* The filter over a joined pair (d, a).
FilterHolds(filter, d, a) ==
  \A i \in DOMAIN filter :
    IF filter[i][1] = "d" THEN ~IsNull(d[filter[i][2]]) ELSE ~IsNull(a[filter[i][2]])

\* The filter over the one table a query scans under `alias`.
FilterHoldsOne(filter, alias, r) ==
  \A i \in DOMAIN filter : filter[i][1] = alias => ~IsNull(r[filter[i][2]])

\* A test on an alias the query does not bind is a binder error.
Unbound(filter, alias) == \E i \in DOMAIN filter : filter[i][1] # alias

Min(S) == CHOOSE x \in S : \A y \in S : x <= y

\* filter_cond.split(' AND <alias>.')[0]: the tests before the first test,
\* other than the very first, that is on `alias`.
SplitHead(filter, alias) ==
  LET hits == { i \in 2..Len(filter) : filter[i][1] = alias }
  IN IF hits = {} THEN filter ELSE SubSeq(filter, 1, Min(hits) - 1)

\* text.replace('<from>.', '<to>.')
Realias(filter, from, to) ==
  [i \in DOMAIN filter |-> <<IF filter[i][1] = from THEN to ELSE filter[i][1], filter[i][2]>>]

\* A count of the DataDirect rows that have a partner, not of the joined pairs.
InnerJoinCountMatchedRows(D, A, cond, filter) ==
  Cardinality({ i \in DOMAIN D :
                  \E j \in DOMAIN A : CondHolds(cond, D[i], A[j]) /\ FilterHolds(filter, D[i], A[j]) })

\* The join with its ON condition left out: every pair that passes the filter.
InnerJoinCountCross(D, A, cond, filter) ==
  Cardinality({ p \in (DOMAIN D) \X (DOMAIN A) : FilterHolds(filter, D[p[1]], A[p[2]]) })

\* SELECT COUNT(*) FROM datadirect d INNER JOIN ad_consumers a ON cond WHERE filter
InnerJoinCount(D, A, cond, filter) ==
  Cardinality({ p \in (DOMAIN D) \X (DOMAIN A) :
                  CondHolds(cond, D[p[1]], A[p[2]]) /\ FilterHolds(filter, D[p[1]], A[p[2]]) })

\* The anti-join with its IS NOT NULL filter left out.
AntiJoinCountDDUnfiltered(D, A, cond, filter) ==
  Cardinality({ i \in DOMAIN D : ~(\E j \in DOMAIN A : CondHolds(cond, D[i], A[j])) })

\* SELECT COUNT(*) FROM datadirect d
\* WHERE NOT EXISTS (SELECT 1 FROM ad_consumers a WHERE cond) AND filter
\* (the same rows as FROM datadirect d ANTI JOIN ad_consumers a ON cond WHERE filter)
AntiJoinCountDD(D, A, cond, filter) ==
  Cardinality({ i \in DOMAIN D :
                  /\ ~(\E j \in DOMAIN A : CondHolds(cond, D[i], A[j]))
                  /\ FilterHoldsOne(filter, "d", D[i]) })

\* The anti-join with its IS NOT NULL filter left out.
AntiJoinCountACUnfiltered(D, A, cond, filter) ==
  Cardinality({ j \in DOMAIN A : ~(\E i \in DOMAIN D : CondHolds(cond, D[i], A[j])) })

AntiJoinCountAC(D, A, cond, filter) ==
  Cardinality({ j \in DOMAIN A :
                  /\ ~(\E i \in DOMAIN D : CondHolds(cond, D[i], A[j]))
                  /\ FilterHoldsOne(filter, "a", A[j]) })

\* A Python float that is a quotient of two counts, kept exact.  A zero
\* denominator stands for the ZeroDivisionError the division raised.
Ratio(n, d) == [num |-> n, den |-> d]

Zero == Ratio(0, 1)

Raised(x) == x.den = 0

\* Python's n / d
Div(n, d) == Ratio(n, d)

\* Python's x * k on the value of a division
Times(x, k) == Ratio(x.num * k, x.den)

RatEq(x, y) == x.num * y.den = y.num * x.den

RatLe(x, y) == x.num * y.den <= y.num * x.den

-----------------------------------------------------------------------------
(* comprehensive_anti_join_analysis_v10 (and the same loop of v7) *)

Direct(name, col) ==
  [name |-> name, cond |-> <<Eq(col, col)>>, filter |-> << <<"d", col>>, <<"a", col>> >>]

direct_matches ==
  << Direct("Title", "title"), Direct("FirstName", "first_name"),
     Direct("Surname", "surname"), Direct("FullName", "full_name"),
     Direct("Gender", "gender"), Direct("EmailStd", "email_std"),
     Direct("EmailHash", "email_hash"), Direct("Mobile", "mobile"),
     Direct("Landline", "landline"), Direct("Suburb", "suburb"),
     Direct("State", "state"), Direct("Postcode", "postcode") >>

\* (matches / count) * 100 if count > 0 else 0
MatchRate(matches, count) == IF count > 0 THEN Ratio(matches * 100, count) ELSE Zero

\* The Field(ge=0, le=100) constraints of AntiJoinResult.
AntiJoinResultValid(r) ==
  /\ r.matches >= 0 /\ r.dd_only >= 0 /\ r.ac_only >= 0
  /\ RatLe(Zero, r.dd_match_rate) /\ RatLe(r.dd_match_rate, Ratio(100, 1))
  /\ RatLe(Zero, r.ac_match_rate) /\ RatLe(r.ac_match_rate, Ratio(100, 1))

\* One pass of the body of the loop over direct_matches: the three counts,
\* the two rates, and whether any statement of the try block raised.
AnalyzeDirect(D, A, key) ==
  LET dd_filter == SplitHead(key.filter, "a")
      ac_filter == Realias(SplitHead(key.filter, "d"), "d", "a")
      matches == InnerJoinCount(D, A, key.cond, key.filter)
      r == [match_name |-> key.name,
            matches |-> matches,
            dd_only |-> AntiJoinCountDD(D, A, key.cond, dd_filter),
            ac_only |-> AntiJoinCountAC(D, A, key.cond, ac_filter),
            dd_match_rate |-> MatchRate(matches, Len(D)),
            ac_match_rate |-> MatchRate(matches, Len(A))]
  IN [result |-> r,
      raised |-> \/ Unbound(dd_filter, "d") \/ Unbound(ac_filter, "a")
                 \/ ~AntiJoinResultValid(r)]

-----------------------------------------------------------------------------
(* comprehensive_anti_join_analysis_v7: the loop over compound_matches *)

compound_matches ==
  << [name |-> "Name+Suburb+Postcode", col |-> "name_suburb_postcode"],
     [name |-> "Name+Suburb+Postcode+Mobile", col |-> "name_suburb_postcode_mobile"] >>

\* CAST(text AS BOOLEAN): "t" for true, "f" for false, "e" for a conversion error.
CastBool(s) ==
  IF UpperText(s) \in {<<"1">>, <<"T">>, <<"Y">>} THEN "t"
  ELSE IF UpperText(s) \in {<<"0">>, <<"F">>, <<"N">>} THEN "f"
  ELSE "e"

\* The WHERE clause condition.replace('=', 'IS NOT NULL AND') of the inner
\* join reads "d.<col> IS NOT NULL AND a.<col>": its second operand is the
\* text column itself, cast to BOOLEAN.  The cast is evaluated on the joined
\* pairs, or, pushed below the join, on every row of ad_consumers.
V7JoinedPairs(D, A, col) ==
  { p \in (DOMAIN D) \X (DOMAIN A) : SqlEq(D[p[1]][col], A[p[2]][col]) }

V7MatchesRaises(D, A, col, pushdown) ==
  IF pushdown
  THEN \E j \in DOMAIN A : ~IsNull(A[j][col]) /\ CastBool(Val(A[j][col])) = "e"
  ELSE \E p \in V7JoinedPairs(D, A, col) : CastBool(Val(A[p[2]][col])) = "e"

V7Matches(D, A, col) ==
  Cardinality({ p \in V7JoinedPairs(D, A, col) : CastBool(Val(A[p[2]][col])) = "t" })

\* One pass of the body of the loop over compound_matches.
AnalyzeCompoundV7(D, A, key, pushdown) ==
  IF V7MatchesRaises(D, A, key.col, pushdown)
  THEN [match_name |-> key.name, error |-> TRUE]
  ELSE [match_name |-> key.name, error |-> FALSE,
        matches |-> V7Matches(D, A, key.col),
        dd_only |-> AntiJoinCountDD(D, A, <<Eq(key.col, key.col)>>, <<>>),
        ac_only |-> AntiJoinCountAC(D, A, <<Eq(key.col, key.col)>>, <<>>)]

-----------------------------------------------------------------------------
(* generate_detailed_match_report *)

match_fields ==
  << [name |-> "EmailStd", col |-> "email_std"],
     [name |-> "EmailHash", col |-> "email_hash"],
     [name |-> "Mobile", col |-> "mobile"],
     [name |-> "FullName", col |-> "full_name"] >>

\* SELECT COUNT(*) FROM <table> WHERE <col> IS NOT NULL
FieldCount(tbl, col) == Cardinality({ i \in DOMAIN tbl : ~IsNull(tbl[i][col]) })

IntMin(a, b) == IF a <= b THEN a ELSE b

\* The statistics with the guard of the Jaccard division left out.
CalculateStatisticsUnguarded(matches, dd_field_count, ad_field_count) ==
  [dd_match_rate |->
     IF dd_field_count > 0 THEN Times(Div(matches, dd_field_count), 100) ELSE Zero,
   ad_match_rate |->
     IF ad_field_count > 0 THEN Times(Div(matches, ad_field_count), 100) ELSE Zero,
   overlap_coefficient |->
     IF IntMin(dd_field_count, ad_field_count) > 0
     THEN Div(matches, IntMin(dd_field_count, ad_field_count)) ELSE Zero,
   jaccard_index |-> Div(matches, dd_field_count + ad_field_count - matches)]

\* The "Calculate statistics" block.
CalculateStatistics(matches, dd_field_count, ad_field_count) ==
  LET union_size == dd_field_count + ad_field_count - matches
  IN [dd_match_rate |->
        IF dd_field_count > 0 THEN Times(Div(matches, dd_field_count), 100) ELSE Zero,
      ad_match_rate |->
        IF ad_field_count > 0 THEN Times(Div(matches, ad_field_count), 100) ELSE Zero,
      overlap_coefficient |->
        IF IntMin(dd_field_count, ad_field_count) > 0
        THEN Div(matches, IntMin(dd_field_count, ad_field_count)) ELSE Zero,
      jaccard_index |-> IF union_size > 0 THEN Div(matches, union_size) ELSE Zero]

\* One pass of the body of the loop over match_fields: a MatchStatistics.
FieldStatistics(D, A, f) ==
  LET cond == <<Eq(f.col, f.col)>>
      dd_field_count == FieldCount(D, f.col)
      ad_field_count == FieldCount(A, f.col)
      matches == InnerJoinCount(D, A, cond, << <<"d", f.col>>, <<"a", f.col>> >>)
      st == CalculateStatistics(matches, dd_field_count, ad_field_count)
  IN [field_name |-> f.name,
      total_matches |-> matches,
      dd_total_records |-> dd_field_count,
      ad_total_records |-> ad_field_count,
      dd_only_records |-> AntiJoinCountDD(D, A, cond, << <<"d", f.col>> >>),
      ad_only_records |-> AntiJoinCountAC(D, A, cond, << <<"a", f.col>> >>),
      dd_match_rate |-> st.dd_match_rate,
      ad_match_rate |-> st.ad_match_rate,
      overlap_coefficient |-> st.overlap_coefficient,
      jaccard_index |-> st.jaccard_index]

StatisticsRaised(st) ==
  \/ Raised(st.dd_match_rate) \/ Raised(st.ad_match_rate)
  \/ Raised(st.overlap_coefficient) \/ Raised(st.jaccard_index)

\* The divisions the f-strings of generate_report_content evaluate.
ContentDivisions(statistics, dd_total, ad_total) ==
  {Div(dd_total, dd_total + ad_total), Div(ad_total, dd_total + ad_total),
   Div(ad_total, dd_total), Div(1, Len(statistics))}
  \cup UNION { {Div(statistics[i].dd_only_records, statistics[i].dd_total_records),
                Div(statistics[i].ad_only_records, statistics[i].ad_total_records),
                Div(statistics[i].dd_total_records, dd_total),
                Div(statistics[i].ad_total_records, ad_total)} : i \in DOMAIN statistics }

\* generate_report_content returns the report text unless a division raises.
generate_report_content(statistics, dd_total, ad_total) ==
  IF \E q \in ContentDivisions(statistics, dd_total, ad_total) : Raised(q)
  THEN "ZeroDivisionError"
  ELSE "ok"

-----------------------------------------------------------------------------
(* analyze_compound_matches (compound_match_analysis.py) *)

NameCols == <<"first_name", "surname", "suburb", "postcode">>

NameEmailCols == <<"first_name", "surname", "suburb", "postcode", "email_hash">>

EqAll(cols) == [i \in DOMAIN cols |-> Eq(cols[i], cols[i])]

NotNullAll(alias, cols) == [i \in DOMAIN cols |-> <<alias, cols[i]>>]

\* The entries of compound_fields with, for each, the columns the coverage
\* counts test and the filter_cond text of its branch.
compound_fields ==
  << [name |-> "FullName", cond |-> EqAll(<<"full_name">>),
      total |-> <<"full_name">>,
      filter |-> NotNullAll("d", <<"full_name">>) \o NotNullAll("a", <<"full_name">>)],
     [name |-> "NameSuburb", cond |-> EqAll(<<"first_name", "surname", "suburb">>),
      total |-> NameCols,
      filter |-> NotNullAll("d", NameCols) \o NotNullAll("a", NameCols)],
     [name |-> "NameSuburbPostcode", cond |-> EqAll(NameCols),
      total |-> NameCols,
      filter |-> NotNullAll("d", NameCols) \o NotNullAll("a", NameCols)],
     [name |-> "NameSuburbPostcodeEmail", cond |-> EqAll(NameEmailCols),
      total |-> NameEmailCols,
      filter |-> NotNullAll("d", NameEmailCols) \o NotNullAll("a", NameEmailCols)] >>

\* SELECT COUNT(*) FROM <table> WHERE c1 IS NOT NULL AND c2 IS NOT NULL ...
CoverageCount(tbl, cols) ==
  Cardinality({ i \in DOMAIN tbl : \A k \in DOMAIN cols : ~IsNull(tbl[i][cols[k]]) })

\* One pass of the body of the loop over compound_fields.
AnalyzeCompound(D, A, key) ==
  LET dd_total == CoverageCount(D, key.total)
      ad_total == CoverageCount(A, key.total)
      dd_filter == SplitHead(key.filter, "a")
      ad_filter == SplitHead(Realias(key.filter, "d", "a"), "a")
      matches == InnerJoinCount(D, A, key.cond, key.filter)
  IN [name |-> key.name,
      matches |-> matches,
      dd_total |-> dd_total,
      ad_total |-> ad_total,
      dd_only |-> AntiJoinCountDD(D, A, key.cond, dd_filter),
      ad_only |-> AntiJoinCountAC(D, A, key.cond, ad_filter),
      dd_match_rate |-> IF dd_total > 0 THEN Times(Div(matches, dd_total), 100) ELSE Zero,
      ad_match_rate |-> IF ad_total > 0 THEN Times(Div(matches, ad_total), 100) ELSE Zero,
      jaccard_index |->
        IF dd_total + ad_total - matches > 0
        THEN Div(matches, dd_total + ad_total - matches) ELSE Zero,
      dd_coverage |-> Times(Div(dd_total, Len(D)), 100),
      ad_coverage |-> Times(Div(ad_total, Len(A)), 100)]

-----------------------------------------------------------------------------
(* comprehensive_match_analysis_v8: export to parquet files, then analysis *)

\* The direct_matches of export_join_results: the names are the column names.
direct_matches_v8 ==
  [i \in DOMAIN direct_matches |-> Direct(direct_matches[i].cond[1].d, direct_matches[i].cond[1].d)]

match_types == [i \in DOMAIN direct_matches_v8 |-> direct_matches_v8[i].name]

compound_types == <<"name_suburb_postcode", "name_suburb_postcode_mobile">>

Range(f) == { f[i] : i \in DOMAIN f }

\* results_path / f"{kind}_{match_name}.parquet"
FileNames == {"matches", "dd_only", "ac_only"} \X (Range(match_types) \cup Range(compound_types))

Absent == [exists |-> FALSE, rows |-> 0]

Parquet(n) == [exists |-> TRUE, rows |-> n]

EmptyDir == [f \in FileNames |-> Absent]

\* The rows the COPY of one export loop writes for a direct key.
ExportCount(D, A, kind, key) ==
  CASE kind = "matches" -> InnerJoinCount(D, A, key.cond, key.filter)
    [] kind = "dd_only" -> AntiJoinCountDD(D, A, key.cond, SplitHead(key.filter, "a"))
    [] OTHER -> AntiJoinCountAC(D, A, key.cond,
                                Realias(SplitHead(key.filter, "d"), "d", "a"))

\* One of the three export loops over direct_matches: COPY ... TO output_file
\* for every key; a COPY that raises is logged and leaves the file as it was.
ExportDirect(dir, bad, D, A, kind) ==
  [f \in FileNames |->
     IF f[1] = kind /\ f \notin bad /\ \E i \in DOMAIN direct_matches_v8 :
                                         direct_matches_v8[i].name = f[2]
     THEN LET i == CHOOSE k \in DOMAIN direct_matches_v8 : direct_matches_v8[k].name = f[2]
          IN Parquet(ExportCount(D, A, kind, direct_matches_v8[i]))
     ELSE dir[f]]

\* The three COPY statements of one compound key share one try block: the
\* first that raises skips the ones after it.
CompoundWritten(bad, kind, col) ==
  /\ <<"matches", col>> \notin bad
  /\ kind \in {"dd_only", "ac_only"} => <<"dd_only", col>> \notin bad
  /\ kind = "ac_only" => <<"ac_only", col>> \notin bad

ExportCompound(dir, bad, D, A) ==
  [f \in FileNames |->
     IF f[2] \in Range(compound_types) /\ CompoundWritten(bad, f[1], f[2])
     THEN LET cond == <<Eq(f[2], f[2])>>
          IN Parquet(CASE f[1] = "matches" ->
                            InnerJoinCount(D, A, cond, << <<"d", f[2]>>, <<"a", f[2]>> >>)
                       [] f[1] = "dd_only" -> AntiJoinCountDD(D, A, cond, << <<"d", f[2]>> >>)
                       [] OTHER -> AntiJoinCountAC(D, A, cond, << <<"a", f[2]>> >>))
     ELSE dir[f]]

\* SELECT COUNT(*) FROM read_parquet(file) if file.exists() else 0
CountFile(dir, f) == IF dir[f].exists THEN dir[f].rows ELSE 0

\* The Field(ge=0, le=100) constraints of MatchResult.
MatchResultValid(r) ==
  /\ r.matches >= 0 /\ r.dd_only >= 0 /\ r.ac_only >= 0
  /\ RatLe(Zero, r.dd_match_rate) /\ RatLe(r.dd_match_rate, Ratio(100, 1))
  /\ RatLe(Zero, r.ac_match_rate) /\ RatLe(r.ac_match_rate, Ratio(100, 1))

\* The body of the loops of analyze_exported_results for one match type.
AnalyzeExported(dir, dd_count, ac_count, match_type) ==
  LET matches == CountFile(dir, <<"matches", match_type>>)
  IN [match_name |-> match_type,
      matches |-> matches,
      dd_only |-> CountFile(dir, <<"dd_only", match_type>>),
      ac_only |-> CountFile(dir, <<"ac_only", match_type>>),
      dd_match_rate |-> MatchRate(matches, dd_count),
      ac_match_rate |-> MatchRate(matches, ac_count)]

\* The print / logger.info line of one match type, or the logged error.
Reported(r, raised) ==
  [match_name |-> r.match_name, error |-> raised, matches |-> r.matches,
   dd_only |-> r.dd_only, ac_only |-> r.ac_only]

\* The files a run may find unwritable: none, or one of a few of them.
UnwritableChoices ==
  { {}, {<<"matches", "first_name">>}, {<<"dd_only", "surname">>},
    {<<"ac_only", "suburb">>}, {<<"matches", "name_suburb_postcode">>} }

-----------------------------------------------------------------------------
(* validate_email_hashes (hash_validation_analysis.py) *)

\* Largest number of (dd_email, dd_hash, ad_email, ad_hash) tuples in a list.
MaxSamples == 2

\* Python's str.lower on one character of the model's alphabet.
Lower(c) ==
  CASE c = "A" -> "a"
    [] c = "B" -> "b"
    [] c = "C" -> "c"
    [] c = "D" -> "d"
    [] c = "E" -> "e"
    [] c = "F" -> "f"
    [] OTHER -> c

LowerText(s) == [i \in DOMAIN s |-> Lower(s[i])]

HexDigit(n) ==
  CASE n < 10 -> Digit(n)
    [] n = 10 -> "a" [] n = 11 -> "b" [] n = 12 -> "c"
    [] n = 13 -> "d" [] n = 14 -> "e" [] OTHER -> "f"

RECURSIVE DigestByte(_, _)
DigestByte(h, s) ==
  IF s = <<>> THEN h ELSE DigestByte((h * 31 + Code(Head(s))) % 256, Tail(s))

\* hashlib.sha256(text.encode()).hexdigest(): a digest of the bytes of the
\* text in lower-case hexadecimal, here one byte long instead of 32.
Sha256Hex(s) ==
  LET h == DigestByte(118, s) IN <<HexDigit(h \div 16), HexDigit(h % 16)>>

\* dd_email.strip(): a Python str, or None (NULL).
Truthy(x) == ~IsNull(x) /\ Val(x) # <<>>

\* hashlib.sha256(dd_email.strip().lower().encode()).hexdigest().upper()
ExpectedHash(email) == UpperText(Sha256Hex(LowerText(TrimText(Val(email)))))

\* A flag whose stored hash is None is evaluated without the `and` guard:
\* None.upper() raises.
HashFlagUnguarded(hash, expected_hash) ==
  IF IsNull(hash) THEN "AttributeError"
  ELSE IF UpperText(Val(hash)) = expected_hash THEN "True" ELSE "False"

\* hash and hash.upper() == expected_hash, as str() prints it: the falsy
\* operand itself ("None" or "") when the stored hash is None or empty.
HashFlag(hash, expected_hash) ==
  IF IsNull(hash) THEN "None"
  ELSE IF Val(hash) = <<>> THEN ""
  ELSE IF UpperText(Val(hash)) = expected_hash THEN "True" ELSE "False"

\* hash or "NULL"
OrNULL(hash) == IF Truthy(hash) THEN Val(hash) ELSE <<"N", "U", "L", "L">>

\* The loop body with ad_valid computed from the DataDirect hash.
ValidateSampleCoupled(acc, sample) ==
  IF ~(Truthy(sample.dd_email) /\ TrimText(Val(sample.dd_email)) # <<>>)
  THEN acc
  ELSE LET expected_hash == ExpectedHash(sample.dd_email)
           dd_valid == HashFlag(sample.dd_hash, expected_hash)
           ad_valid == HashFlag(sample.dd_hash, expected_hash)
       IN IF dd_valid = "True" /\ ad_valid = "True"
          THEN [acc EXCEPT !.valid_count = @ + 1]
          ELSE [acc EXCEPT
                  !.invalid_count = @ + 1,
                  !.mismatches =
                     Append(@, [email |-> Val(sample.dd_email),
                                expected_hash |-> expected_hash,
                                dd_hash |-> OrNULL(sample.dd_hash),
                                ad_hash |-> OrNULL(sample.ad_hash),
                                dd_valid |-> dd_valid,
                                ad_valid |-> ad_valid])]

\* One pass of the loop body over the counters and the mismatch list.
ValidateSample(acc, sample) ==
  IF ~(Truthy(sample.dd_email) /\ TrimText(Val(sample.dd_email)) # <<>>)
  THEN acc
  ELSE LET expected_hash == ExpectedHash(sample.dd_email)
           dd_valid == HashFlag(sample.dd_hash, expected_hash)
           ad_valid == HashFlag(sample.ad_hash, expected_hash)
       IN IF dd_valid = "True" /\ ad_valid = "True"
          THEN [acc EXCEPT !.valid_count = @ + 1]
          ELSE [acc EXCEPT
                  !.invalid_count = @ + 1,
                  !.raised = @ \/ "AttributeError" \in {dd_valid, ad_valid},
                  !.mismatches =
                     IF Len(@) < 5
                     THEN Append(@, [email |-> Val(sample.dd_email),
                                     expected_hash |-> expected_hash,
                                     dd_hash |-> OrNULL(sample.dd_hash),
                                     ad_hash |-> OrNULL(sample.ad_hash),
                                     dd_valid |-> dd_valid,
                                     ad_valid |-> ad_valid])
                     ELSE @]

RECURSIVE ValidateLoop(_, _)
ValidateLoop(acc, samples) ==
  IF samples = <<>> THEN acc
  ELSE ValidateLoop(ValidateSample(acc, Head(samples)), Tail(samples))

\* The result with the skipped samples counted as invalid.
validate_email_hashesCountAll(samples) ==
  LET acc == ValidateLoop([valid_count |-> 0, invalid_count |-> 0,
                           mismatches |-> <<>>, raised |-> FALSE], samples)
  IN [field_type |-> "Email",
      total_records |-> Len(samples),
      valid_hashes |-> acc.valid_count,
      invalid_hashes |-> Len(samples) - acc.valid_count,
      validation_rate |-> Zero,
      sample_mismatches |-> acc.mismatches,
      raised |-> acc.raised]

\* The HashValidationResult, and whether the call raised instead.
validate_email_hashes(samples) ==
  LET acc == ValidateLoop([valid_count |-> 0, invalid_count |-> 0,
                           mismatches |-> <<>>, raised |-> FALSE], samples)
      total == acc.valid_count + acc.invalid_count
  IN [field_type |-> "Email",
      total_records |-> total,
      valid_hashes |-> acc.valid_count,
      invalid_hashes |-> acc.invalid_count,
      validation_rate |->
        IF total > 0 THEN Times(Div(acc.valid_count, total), 100) ELSE Zero,
      sample_mismatches |-> acc.mismatches,
      raised |-> acc.raised]

\* The emails of the sample tuples: None, blank, and one that needs strip()
\* and lower().
SampleEmails == {NULL, T(<<" ">>), T(<<"A", " ">>)}

\* Stored hashes of DataDirect: None, empty, the digest of "a" in mixed case,
\* and that digest with one character changed.
DDHashes == {NULL, T(<<>>), T(<<"a", "B">>), T(<<"a", "c">>)}

\* Stored hashes of Ad_consumers: None, the digest of "a" in lower case, and a
\* text that is no digest at all.
ADHashes == {NULL, T(<<"a", "b">>), T(<<"z">>)}

Samples ==
  { [dd_email |-> e, dd_hash |-> d, ad_email |-> e, ad_hash |-> a] :
      e \in SampleEmails, d \in DDHashes, a \in ADHashes }

SampleLists == UNION { [1..n -> Samples] : n \in 0..MaxSamples }

-----------------------------------------------------------------------------
(* comprehensive_match_analysis_v1: queries over the two parquet files *)

ACColumns ==
  {"title", "given_name_1", "surname", "gender", "email", "email_sha256",
   "mobile_text", "landline_text", "suburb", "state", "postcode_text"}

\* The column of read_parquet(file2) a name binds to: DuckDB binds names
\* without regard to letter case; "" when no column has the name.
BindAC(col) ==
  CASE col \in ACColumns -> col
    [] col = "Title" -> "title"
    [] col = "Surname" -> "surname"
    [] col = "Gender" -> "gender"
    [] col = "Suburb" -> "suburb"
    [] col = "State" -> "state"
    [] OTHER -> ""

\* An entry of direct_matches, concat_matches or the all-fields condition: the
\* columns joined with ' ' on each side, whether the texts are upper-cased,
\* whether each column is wrapped in COALESCE(.., ''), and the filter.
V1Key(name, dcols, acols, upper, coalesce, filtered) ==
  [name |-> name, d |-> dcols, a |-> acols, upper |-> upper, coalesce |-> coalesce,
   filter |-> IF filtered
              THEN [i \in DOMAIN dcols |-> <<"d", dcols[i]>>] \o
                   [i \in DOMAIN acols |-> <<"a", acols[i]>>]
              ELSE <<>>]

direct_matches_v1 ==
  << V1Key("FirstName", <<"FirstName">>, <<"given_name_1">>, TRUE, FALSE, TRUE),
     V1Key("LastName", <<"Surname">>, <<"surname">>, TRUE, FALSE, TRUE),
     V1Key("FullName", <<"FirstName", "Surname">>, <<"given_name_1", "surname">>,
           TRUE, FALSE, TRUE),
     V1Key("Email", <<"EmailStd">>, <<"email">>, TRUE, FALSE, TRUE),
     V1Key("Mobile", <<"Mobile">>, <<"mobile_text">>, FALSE, FALSE, TRUE),
     V1Key("Landline", <<"Landline">>, <<"landline">>, FALSE, FALSE, TRUE) >>

NSP_D == <<"FirstName", "Surname", "Suburb", "Postcode">>

NSP_A == <<"given_name_1", "surname", "suburb", "postcode_text">>

concat_matches_v1 ==
  << V1Key("Name+Suburb+Postcode", NSP_D, NSP_A, TRUE, FALSE, FALSE),
     V1Key("Name+Suburb+Postcode+Email", NSP_D \o <<"EmailStd">>, NSP_A \o <<"email">>,
           TRUE, FALSE, FALSE),
     V1Key("Name+Suburb+Postcode+Mobile", NSP_D \o <<"Mobile">>, NSP_A \o <<"mobile_text">>,
           TRUE, FALSE, FALSE),
     V1Key("Name+Suburb+Postcode+Landline", NSP_D \o <<"Landline">>, NSP_A \o <<"landline">>,
           TRUE, FALSE, FALSE) >>

all_fields_condition ==
  V1Key("All Fields",
        <<"Title", "FirstName", "Surname", "Gender", "Landline", "Mobile", "EmailStd",
          "Suburb", "State", "Postcode">>,
        <<"title", "given_name_1", "surname", "gender", "landline", "mobile_text", "email",
          "suburb", "state", "postcode_text">>,
        TRUE, TRUE, FALSE)

\* One operand of the || chain: the column, the numeric Postcode as text.
V1Operand(r, col, coalesce) ==
  LET x == IF col = "Postcode" THEN CastVarchar(r[col]) ELSE r[col]
  IN IF coalesce /\ IsNull(x) THEN Some(<<>>) ELSE x

\* c1 || ' ' || c2 || ' ' || ... over the first n columns.
RECURSIVE V1Chain(_, _, _, _)
V1Chain(r, cols, coalesce, n) ==
  IF n = 1 THEN V1Operand(r, cols[1], coalesce)
  ELSE Sp(V1Chain(r, cols, coalesce, n - 1), V1Operand(r, cols[n], coalesce))

\* UPPER(TRIM(chain)) or TRIM(chain)
V1Side(key, r, cols) ==
  LET t == TRIM(V1Chain(r, cols, key.coalesce, Len(cols)))
  IN IF key.upper THEN UPPER(t) ELSE t

V1Bound(cols) == [i \in DOMAIN cols |-> BindAC(cols[i])]

\* {condition} AND {filter_cond} over a pair of rows.
V1Pair(key, d, a) ==
  /\ SqlEq(V1Side(key, d, key.d), V1Side(key, a, V1Bound(key.a)))
  /\ FilterHolds(key.filter, d, a)

V1BindFilter(filter) == [i \in DOMAIN filter |-> <<"a", BindAC(filter[i][2])>>]

\* dd_filter = filter_cond.split(' AND a.')[0].replace('a.', 'd.')
V1DDFilter(key) == Realias(SplitHead(key.filter, "a"), "a", "d")

\* ac_filter = filter_cond.split(' AND d.')[0].replace('d.', 'a.'), the column
\* names as the text has them.
V1ACFilter(key) == Realias(SplitHead(key.filter, "d"), "d", "a")

\* One pass of a loop body: the three counts over read_parquet(file1) d and
\* read_parquet(file2) a, and whether a statement of the try block raised (a
\* name that binds to no column of its file).
V1Analyze(D, A, key) ==
  LET dd_filter == V1DDFilter(key)
      ac_filter == V1BindFilter(V1ACFilter(key))
      raised == \/ \E i \in DOMAIN key.a : BindAC(key.a[i]) = ""
                \/ \E i \in DOMAIN ac_filter : ac_filter[i][2] = ""
  IN IF raised
     THEN [raised |-> TRUE, result |-> [match_name |-> key.name]]
     ELSE [raised |-> FALSE,
           result |->
             [match_name |-> key.name,
              matches |-> Cardinality({ p \in (DOMAIN D) \X (DOMAIN A) :
                                          V1Pair(key, D[p[1]], A[p[2]]) }),
              dd_only |-> Cardinality({ i \in DOMAIN D :
                                          /\ ~(\E j \in DOMAIN A : V1Pair(key, D[i], A[j]))
                                          /\ FilterHoldsOne(dd_filter, "d", D[i]) }),
              ac_only |-> Cardinality({ j \in DOMAIN A :
                                          /\ ~(\E i \in DOMAIN D : V1Pair(key, D[i], A[j]))
                                          /\ FilterHoldsOne(ac_filter, "a", A[j]) })]]

\* What a run writes: a logger.error line, the opening of the connection, or a
\* line printed to the terminal.
Event(kind, name) == [event |-> kind, name |-> name]

-----------------------------------------------------------------------------
(* comprehensive_match_analysis_v11 *)

\* The (source_table, alivedata_table) names the functions are called with:
\* the defaults, and tables named like the aliases of the queries.
TableNames == { <<"source_data", "alivedata">>, <<"d", "a">> }

direct_matches_v11 ==
  << Direct("FullName", "full_name"), Direct("EmailStd", "email_std"),
     Direct("EmailHash", "email_hash"), Direct("Mobile", "mobile"),
     Direct("Landline", "landline") >>

\* The fields of AntiJoinResult, all of them required (Field(...)).
AntiJoinResultFields ==
  {"match_name", "matches", "tpd_only", "ac_only", "tpd_match_rate", "ac_match_rate",
   "processing_time"}

\* AntiJoinResult(**kwargs) validates: every required field is given.
AntiJoinResultV11Valid(kwargs) == AntiJoinResultFields \subseteq DOMAIN kwargs

\* SELECT * FROM <table> WHERE <filter> binds: the filter names its columns
\* through an alias, which the subquery knows only if the table has that name.
SubqueryBinds(filter, table) == \A i \in DOMAIN filter : filter[i][1] = table

\* One pass of the body of the loop over direct_matches.
AnalyzeDirectV11(D, A, key, names) ==
  LET src_filter == SplitHead(key.filter, "a")
      alive_filter == Realias(SplitHead(key.filter, "d"), "d", "a")
      matches == InnerJoinCount(D, A, key.cond, key.filter)
      queries_ok == SubqueryBinds(src_filter, names[1]) /\ SubqueryBinds(alive_filter, names[2])
      kwargs == [match_name |-> key.name,
                 matches |-> matches,
                 dd_only |-> AntiJoinCountDD(D, A, key.cond, src_filter),
                 ac_only |-> AntiJoinCountAC(D, A, key.cond, alive_filter),
                 dd_match_rate |-> MatchRate(matches, Len(D)),
                 ac_match_rate |-> MatchRate(matches, Len(A)),
                 processing_time |-> 0]
  IN [kwargs |-> kwargs,
      queries_ok |-> queries_ok,
      raised |-> ~queries_ok \/ ~AntiJoinResultV11Valid(kwargs)]

\* extract_unique_source_records: the rows written to the parquet file.
join_fields == <<"full_name", "suburb", "postcode", "email_std">>

UniqueSourceRecords(D, A) ==
  AntiJoinCountDD(D, A, [i \in DOMAIN join_fields |-> Eq(join_fields[i], join_fields[i])],
                  [i \in DOMAIN join_fields |-> <<"d", join_fields[i]>>])

-----------------------------------------------------------------------------
(* State *)

VARIABLES
  file1,      \* the DataDirect parquet file
  file2,      \* the Ad_consumers parquet file
  db,         \* match_analysis.duckdb
  script,     \* the script that runs: "" when none does
  pc,         \* where the running script is
  idx,        \* the running loop's position in its list of keys
  results,    \* the running script's list of results
  log,        \* what the running script has reported, one entry per key
  outcome,    \* how the script ended: "" while it runs, "ok", or the exception
  match_results,  \* the directory data/interim/match_results: its parquet files
  unwritable, \* the files of that directory the process cannot write
  missing,    \* the source parquet files that do not exist
  tmp         \* the files in /tmp

vars == <<file1, file2, db, script, pc, idx, results, log, outcome, match_results, unwritable, missing, tmp>>

\* `complete`: create_optimized_database ran to its end on this file.
NoFile ==
  [exists |-> FALSE, loaded |-> FALSE, complete |-> FALSE,
   datadirect |-> <<>>, ad_consumers |-> <<>>]

\* What duckdb.connect leaves when the file did not exist: a database, no tables.
EmptyDb ==
  [exists |-> TRUE, loaded |-> FALSE, complete |-> FALSE,
   datadirect |-> <<>>, ad_consumers |-> <<>>]

LoadedDb(f1, f2) ==
  [exists |-> TRUE, loaded |-> TRUE, complete |-> TRUE,
   datadirect |-> create_optimized_database(f1, f2).datadirect,
   ad_consumers |-> create_optimized_database(f1, f2).ad_consumers]

\* The head of the v7 and v10 scripts: create the database if the file does
\* not exist, connect, and count the rows of both tables.
StartWithCreate(name) ==
  /\ pc = "idle"
  /\ script' = name
  /\ db' = IF db.exists THEN db ELSE LoadedDb(file1, file2)
  /\ IF db'.loaded
     THEN pc' = "direct" /\ idx' = 1 /\ outcome' = ""
     ELSE pc' = "done" /\ idx' = 0 /\ outcome' = "CatalogException"
  /\ UNCHANGED <<match_results, unwritable, missing, tmp, file1, file2, results, log>>

\* The head of the scripts that only connect: duckdb.connect creates a missing
\* file, and the first SELECT raises when the tables are not there.
StartWithConnect(name, first) ==
  /\ pc = "idle"
  /\ script' = name
  /\ db' = IF db.exists THEN db ELSE EmptyDb
  /\ IF db'.loaded
     THEN pc' = first /\ idx' = 1 /\ outcome' = ""
     ELSE pc' = "done" /\ idx' = 0 /\ outcome' = "CatalogException"
  /\ UNCHANGED <<match_results, unwritable, missing, tmp, file1, file2, results, log>>

\* The loop body without its try / except: a raise ends the run.
DirectKeyUncaught(name) ==
  /\ script = name
  /\ pc = "direct"
  /\ idx <= Len(direct_matches)
  /\ LET a == AnalyzeDirect(db.datadirect, db.ad_consumers, direct_matches[idx])
     IN IF a.raised
        THEN /\ pc' = "done" /\ outcome' = "ValidationError"
             /\ UNCHANGED <<results, log, idx>>
        ELSE /\ results' = Append(results, a.result)
             /\ log' = Append(log, [match_name |-> a.result.match_name,
                                    error |-> FALSE,
                                    matches |-> a.result.matches,
                                    dd_only |-> a.result.dd_only,
                                    ac_only |-> a.result.ac_only])
             /\ idx' = idx + 1
             /\ UNCHANGED <<pc, outcome>>
  /\ UNCHANGED <<match_results, unwritable, missing, tmp, file1, file2, db, script>>

\* One iteration of the loop over direct_matches of v10 or v7.
DirectKey(name) ==
  /\ script = name
  /\ pc = "direct"
  /\ idx <= Len(direct_matches)
  /\ LET a == AnalyzeDirect(db.datadirect, db.ad_consumers, direct_matches[idx])
     IN /\ results' = IF a.raised THEN results ELSE Append(results, a.result)
        /\ log' = Append(log, [match_name |-> a.result.match_name,
                               error |-> a.raised,
                               matches |-> a.result.matches,
                               dd_only |-> a.result.dd_only,
                               ac_only |-> a.result.ac_only])
  /\ idx' = idx + 1
  /\ UNCHANGED <<match_results, unwritable, missing, tmp, file1, file2, db, script, pc, outcome>>

V10Start == StartWithCreate("v10")

V10Key == DirectKey("v10")

\* conn.close() after the loop
V10Close ==
  /\ script = "v10"
  /\ pc = "direct"
  /\ idx > Len(direct_matches)
  /\ pc' = "done"
  /\ outcome' = "ok"
  /\ UNCHANGED <<match_results, unwritable, missing, tmp, file1, file2, db, script, idx, results, log>>

V7Start == StartWithCreate("v7")

V7Direct == DirectKey("v7")

V7ToCompound ==
  /\ script = "v7"
  /\ pc = "direct"
  /\ idx > Len(direct_matches)
  /\ pc' = "compound"
  /\ idx' = 1
  /\ UNCHANGED <<match_results, unwritable, missing, tmp, file1, file2, db, script, results, log, outcome>>

\* One iteration of the loop over compound_matches of v7.
V7Compound ==
  /\ script = "v7"
  /\ pc = "compound"
  /\ idx <= Len(compound_matches)
  /\ \E pushdown \in BOOLEAN :
       log' = Append(log, AnalyzeCompoundV7(db.datadirect, db.ad_consumers,
                                             compound_matches[idx], pushdown))
  /\ idx' = idx + 1
  /\ UNCHANGED <<match_results, unwritable, missing, tmp, file1, file2, db, script, pc, results, outcome>>

V7Close ==
  /\ script = "v7"
  /\ pc = "compound"
  /\ idx > Len(compound_matches)
  /\ pc' = "done"
  /\ outcome' = "ok"
  /\ UNCHANGED <<match_results, unwritable, missing, tmp, file1, file2, db, script, idx, results, log>>

ReportStart == StartWithConnect("report", "fields")

\* One iteration of the loop over match_fields.
ReportField ==
  /\ script = "report"
  /\ pc = "fields"
  /\ idx <= Len(match_fields)
  /\ LET st == FieldStatistics(db.datadirect, db.ad_consumers, match_fields[idx])
     IN IF StatisticsRaised(st)
        THEN /\ pc' = "done" /\ outcome' = "ZeroDivisionError"
             /\ UNCHANGED <<results, log, idx>>
        ELSE /\ results' = Append(results, st)
             /\ log' = Append(log, [match_name |-> st.field_name, error |-> FALSE,
                                    matches |-> st.total_matches,
                                    dd_only |-> st.dd_only_records,
                                    ac_only |-> st.ad_only_records])
             /\ idx' = idx + 1
             /\ UNCHANGED <<pc, outcome>>
  /\ UNCHANGED <<match_results, unwritable, missing, tmp, file1, file2, db, script>>

\* generate_report_content, the write of the report file, conn.close()
ReportContent ==
  /\ script = "report"
  /\ pc = "fields"
  /\ idx > Len(match_fields)
  /\ pc' = "done"
  /\ outcome' = generate_report_content(results, Len(db.datadirect), Len(db.ad_consumers))
  /\ UNCHANGED <<match_results, unwritable, missing, tmp, file1, file2, db, script, idx, results, log>>

CompoundStart == StartWithConnect("compound", "fields")

\* One iteration of the loop over compound_fields.
CompoundKey ==
  /\ script = "compound"
  /\ pc = "fields"
  /\ idx <= Len(compound_fields)
  /\ LET r == AnalyzeCompound(db.datadirect, db.ad_consumers, compound_fields[idx])
     IN IF \/ Raised(r.dd_match_rate) \/ Raised(r.ad_match_rate)
           \/ Raised(r.jaccard_index) \/ Raised(r.dd_coverage) \/ Raised(r.ad_coverage)
        THEN /\ pc' = "done" /\ outcome' = "ZeroDivisionError"
             /\ UNCHANGED <<results, idx>>
        ELSE /\ results' = Append(results, r)
             /\ idx' = idx + 1
             /\ UNCHANGED <<pc, outcome>>
  /\ UNCHANGED <<match_results, unwritable, missing, tmp, file1, file2, db, script, log>>

CompoundClose ==
  /\ script = "compound"
  /\ pc = "fields"
  /\ idx > Len(compound_fields)
  /\ pc' = "done"
  /\ outcome' = "ok"
  /\ UNCHANGED <<match_results, unwritable, missing, tmp, file1, file2, db, script, idx, results, log>>

\* The head of comprehensive_match_analysis_v8.  Its create_optimized_database
\* creates both tables and then an index on name_suburb_postcode_email, a
\* column neither table has: the run that creates the database ends there.
V8Start ==
  /\ pc = "idle"
  /\ script' = "v8"
  /\ idx' = 0
  /\ IF ~db.exists
     THEN /\ db' = [LoadedDb(file1, file2) EXCEPT !.complete = FALSE]
          /\ pc' = "done" /\ outcome' = "BinderException"
     ELSE IF db.loaded
     THEN db' = db /\ pc' = "export_matches" /\ outcome' = ""
     ELSE db' = db /\ pc' = "done" /\ outcome' = "CatalogException"
  /\ UNCHANGED <<match_results, unwritable, missing, tmp, file1, file2, results, log>>

V8Export(kind, next) ==
  /\ script = "v8"
  /\ pc = "export_" \o kind
  /\ match_results' = ExportDirect(match_results, unwritable, db.datadirect,
                                   db.ad_consumers, kind)
  /\ pc' = next
  /\ UNCHANGED <<unwritable, missing, tmp, file1, file2, db, script, idx, results, log, outcome>>

\* The loop "Export inner joins (matches)".
V8ExportMatches == V8Export("matches", "export_dd_only")

\* The loop "Export anti-joins (DD only)".
V8ExportDDOnly == V8Export("dd_only", "export_ac_only")

\* The loop "Export anti-joins (AC only)".
V8ExportACOnly == V8Export("ac_only", "export_compound")

\* The loop "Export compound matches".
V8ExportCompound ==
  /\ script = "v8"
  /\ pc = "export_compound"
  /\ match_results' = ExportCompound(match_results, unwritable, db.datadirect,
                                     db.ad_consumers)
  /\ pc' = "analyze"
  /\ UNCHANGED <<unwritable, missing, tmp, file1, file2, db, script, idx, results, log, outcome>>

\* analyze_exported_results: the loop over match_types.
V8AnalyzeDirect ==
  /\ script = "v8"
  /\ pc = "analyze"
  /\ LET r == [i \in DOMAIN match_types |->
                AnalyzeExported(match_results, Len(db.datadirect), Len(db.ad_consumers),
                                match_types[i])]
     IN /\ results' = SelectSeq(r, MatchResultValid)
        /\ log' = [i \in DOMAIN r |-> Reported(r[i], ~MatchResultValid(r[i]))]
  /\ pc' = "analyze_compound"
  /\ UNCHANGED <<match_results, unwritable, missing, tmp, file1, file2, db, script, idx, outcome>>

\* analyze_exported_results: the loop over compound_types, then conn.close().
V8AnalyzeCompound ==
  /\ script = "v8"
  /\ pc = "analyze_compound"
  /\ log' = log \o [i \in DOMAIN compound_types |->
                      Reported(AnalyzeExported(match_results, Len(db.datadirect),
                                               Len(db.ad_consumers), compound_types[i]),
                               FALSE)]
  /\ pc' = "done"
  /\ outcome' = "ok"
  /\ UNCHANGED <<match_results, unwritable, missing, tmp, file1, file2, db, script, idx, results>>

\* Source validation without the test of file2_path.
V1StartUnchecked ==
  /\ pc = "idle"
  /\ script' = "v1"
  /\ idx' = 0
  /\ IF "file1" \in missing
     THEN /\ log' = <<Event("error", "DataDirect file not found")>>
          /\ pc' = "done"
          /\ outcome' = "FileNotFoundError"
     ELSE /\ log' = log
          /\ pc' = "connect"
          /\ outcome' = ""
  /\ UNCHANGED <<match_results, unwritable, missing, tmp, file1, file2, db, results>>

\* comprehensive_match_analysis_v1: the configuration and the source validation.
V1Start ==
  /\ pc = "idle"
  /\ script' = "v1"
  /\ idx' = 0
  /\ IF "file1" \in missing
     THEN /\ log' = <<Event("error", "DataDirect file not found")>>
          /\ pc' = "done"
          /\ outcome' = "FileNotFoundError"
     ELSE IF "file2" \in missing
     THEN /\ log' = <<Event("error", "Ad_consumers file not found")>>
          /\ pc' = "done"
          /\ outcome' = "FileNotFoundError"
     ELSE /\ log' = log
          /\ pc' = "connect"
          /\ outcome' = ""
  /\ UNCHANGED <<match_results, unwritable, missing, tmp, file1, file2, db, results>>

\* duckdb.connect(), the two COUNT(*) queries and the header.  The connection
\* is in memory: no database file is touched.
V1Connect ==
  /\ script = "v1"
  /\ pc = "connect"
  /\ IF missing # {}
     THEN /\ log' = log \o <<Event("connect", ""), Event("error", "Critical error")>>
          /\ pc' = "done"
          /\ idx' = 0
          /\ outcome' = "IOException"
     ELSE IF Len(file1) = 0 \/ Len(file2) = 0
     THEN /\ log' = log \o <<Event("connect", ""),
                             Event("error", "One or both datasets are empty"),
                             Event("error", "Critical error")>>
          /\ pc' = "done"
          /\ idx' = 0
          /\ outcome' = "ValueError"
     ELSE /\ log' = log \o <<Event("connect", ""), Event("print", "header")>>
          /\ pc' = "direct"
          /\ idx' = 1
          /\ outcome' = ""
  /\ UNCHANGED <<match_results, unwritable, missing, tmp, file1, file2, db, script, results>>

\* One pass of a loop of v1 over `keys`, its results kept under `list`.
V1LoopPass(keys, list, next) ==
  /\ script = "v1"
  /\ pc = list
  /\ LET a == V1Analyze(file1, file2, keys[idx])
     IN IF a.raised
        THEN /\ results' = results
             /\ log' = Append(log, Event("error", keys[idx].name))
        ELSE /\ results' = Append(results, [list |-> list, result |-> a.result])
             /\ log' = Append(log, Event("print", keys[idx].name))
  /\ IF idx < Len(keys)
     THEN idx' = idx + 1 /\ pc' = pc
     ELSE idx' = 1 /\ pc' = next
  /\ UNCHANGED <<match_results, unwritable, missing, tmp, file1, file2, db, script, outcome>>

\* The loop over direct_matches.
V1DirectKey == V1LoopPass(direct_matches_v1, "direct", "concat")

\* The loop over concat_matches.
V1ConcatKey == V1LoopPass(concat_matches_v1, "concat", "all_fields")

\* The all-fields condition: a failure leaves all_fields_result None.
V1AllFields == V1LoopPass(<<all_fields_condition>>, "all_fields", "statistics")

\* The statistics of the results kept, the summary, and conn.close().
V1Statistics ==
  /\ script = "v1"
  /\ pc = "statistics"
  /\ log' = log \o [i \in DOMAIN results |->
                      Event("print", results[i].result.match_name)]
                \o <<Event("print", "summary")>>
  /\ pc' = "done"
  /\ outcome' = "ok"
  /\ UNCHANGED <<match_results, unwritable, missing, tmp, file1, file2, db, script, idx, results>>

\* The values of chunk_size the calls are made with.
ChunkSizes == {1, 2}

\* f"/tmp/sample_{Path(file_path).stem}.parquet"
temp_file == "sample_file1.parquet"

\* profile_parquet_chunked up to the choice of the branch: the file is read,
\* and a file with more than chunk_size rows has a sample written to /tmp.
ProfileStart ==
  /\ pc = "idle"
  /\ script' = "profiler"
  /\ \E chunk_size \in ChunkSizes :
       IF "file1" \in missing
       THEN pc' = "done" /\ outcome' = "FileNotFoundError" /\ tmp' = tmp /\ log' = log
       ELSE IF Len(file1) <= chunk_size
       THEN pc' = "profile" /\ outcome' = "" /\ tmp' = tmp /\ log' = log
       ELSE /\ pc' = "profile_sample"
            /\ outcome' = ""
            /\ tmp' = tmp \cup {temp_file}
            /\ log' = Append(log, Event("to_parquet", temp_file))
  /\ UNCHANGED <<match_results, unwritable, missing, file1, file2, db, idx, results>>

\* The branch of a small file: Data, Profiler and profile.report, any of
\* which may raise.
ProfileSmall ==
  /\ script = "profiler"
  /\ pc = "profile"
  /\ \E raised \in BOOLEAN :
       IF raised
       THEN pc' = "done" /\ outcome' = "Exception" /\ results' = results
       ELSE pc' = "save" /\ outcome' = "" /\ results' = <<[rows |-> Len(file1)]>>
  /\ UNCHANGED <<match_results, unwritable, missing, tmp, file1, file2, db, script, idx, log>>

\* The branch of a large file: Data, Profiler and profile.report over the
\* sample, then Path(temp_file).unlink(); a raise leaves the function before
\* the unlink.
ProfileSample ==
  /\ script = "profiler"
  /\ pc = "profile_sample"
  /\ \E raised \in BOOLEAN :
       IF raised
       THEN pc' = "done" /\ outcome' = "Exception" /\ results' = results /\ tmp' = tmp
       ELSE /\ pc' = "save"
            /\ outcome' = ""
            /\ results' = <<[rows |-> Len(file1)]>>
            /\ tmp' = tmp \ {temp_file}
  /\ UNCHANGED <<match_results, unwritable, missing, file1, file2, db, script, idx, log>>

\* "Save report": the report is written and returned, or the write raises.
ProfileSave ==
  /\ script = "profiler"
  /\ pc = "save"
  /\ \E raised \in BOOLEAN :
       IF raised
       THEN outcome' = "OSError" /\ log' = log
       ELSE outcome' = "ok" /\ log' = Append(log, Event("saved", "file1_profile.json"))
  /\ pc' = "done"
  /\ UNCHANGED <<match_results, unwritable, missing, tmp, file1, file2, db, script, idx, results>>

\* create_optimized_database of v11: an existing database file is removed
\* and the two tables are created under the names given.
V11Create ==
  /\ pc = "idle"
  /\ script' = "v11"
  /\ \E names \in TableNames :
       db' = [exists |-> TRUE, loaded |-> TRUE, complete |-> TRUE,
              datadirect |-> create_optimized_database(file1, file2).datadirect,
              ad_consumers |-> create_optimized_database(file1, file2).ad_consumers,
              names |-> names]
  /\ pc' = "direct"
  /\ idx' = 1
  /\ outcome' = ""
  /\ UNCHANGED <<match_results, unwritable, missing, tmp, file1, file2, results, log>>

\* comprehensive_anti_join_analysis: one pass of the loop over direct_matches.
V11Key ==
  /\ script = "v11"
  /\ pc = "direct"
  /\ idx <= Len(direct_matches_v11)
  /\ LET a == AnalyzeDirectV11(db.datadirect, db.ad_consumers, direct_matches_v11[idx],
                               db.names)
     IN /\ results' = IF a.raised THEN results ELSE Append(results, a.kwargs)
        /\ log' = Append(log, [event |-> "key", name |-> a.kwargs.match_name,
                               queries_ok |-> a.queries_ok, printed |-> ~a.raised])
  /\ idx' = idx + 1
  /\ UNCHANGED <<match_results, unwritable, missing, tmp, file1, file2, db, script, pc, outcome>>

\* conn.close() after the loop.
V11Close ==
  /\ script = "v11"
  /\ pc = "direct"
  /\ idx > Len(direct_matches_v11)
  /\ pc' = "extract"
  /\ UNCHANGED <<match_results, unwritable, missing, tmp, file1, file2, db, script, idx, results,
                 log, outcome>>

\* extract_unique_source_records
V11Extract ==
  /\ script = "v11"
  /\ pc = "extract"
  /\ log' = Append(log, [event |-> "to_parquet", name |-> "dd_unique_records.parquet",
                         rows |-> UniqueSourceRecords(db.datadirect, db.ad_consumers)])
  /\ pc' = "done"
  /\ outcome' = "ok"
  /\ UNCHANGED <<match_results, unwritable, missing, tmp, file1, file2, db, script, idx, results>>

\* The process ends; the database file stays.
Exit ==
  /\ pc = "done"
  /\ script' = ""
  /\ pc' = "idle"
  /\ idx' = 0
  /\ results' = <<>>
  /\ log' = <<>>
  /\ outcome' = ""
  /\ UNCHANGED <<match_results, unwritable, missing, tmp, file1, file2, db>>

\* The state a script starts in: the two files, and the database file an
\* earlier run has or has not left.
Init ==
  /\ file1 \in DDFiles
  /\ file2 \in ACFiles
  /\ db \in {NoFile, LoadedDb(file1, file2)}
  /\ script = ""
  /\ pc = "idle"
  /\ idx = 0
  /\ results = <<>>
  /\ log = <<>>
  /\ outcome = ""
  /\ match_results = EmptyDir
  /\ unwritable = {}
  /\ missing = {}
  /\ tmp = {}

\* Runs of comprehensive_match_analysis_v10.py
Next ==
  \/ V10Start
  \/ V10Key
  \/ V10Close
  \/ Exit

Spec == Init /\ [][Next]_vars

\* Runs of comprehensive_match_analysis_v7.py
NextV7 ==
  \/ V7Start
  \/ V7Direct
  \/ V7ToCompound
  \/ V7Compound
  \/ V7Close
  \/ Exit

SpecV7 == Init /\ [][NextV7]_vars

\* Runs of detailed_match_report.py
NextReport ==
  \/ ReportStart
  \/ ReportField
  \/ ReportContent
  \/ Exit

SpecReport == Init /\ [][NextReport]_vars

\* Runs of compound_match_analysis.py
NextCompound ==
  \/ CompoundStart
  \/ CompoundKey
  \/ CompoundClose
  \/ Exit

SpecCompound == Init /\ [][NextCompound]_vars

\* Runs of comprehensive_match_analysis_v8.py, with the files of the result
\* directory that cannot be written chosen by the environment.
InitV8 ==
  /\ file1 \in DDFiles
  /\ file2 \in ACFiles
  /\ db \in {NoFile, LoadedDb(file1, file2)}
  /\ script = ""
  /\ pc = "idle"
  /\ idx = 0
  /\ results = <<>>
  /\ log = <<>>
  /\ outcome = ""
  /\ match_results = EmptyDir
  /\ unwritable \in UnwritableChoices
  /\ missing = {}
  /\ tmp = {}

NextV8 ==
  \/ V8Start
  \/ V8ExportMatches
  \/ V8ExportDDOnly
  \/ V8ExportACOnly
  \/ V8ExportCompound
  \/ V8AnalyzeDirect
  \/ V8AnalyzeCompound
  \/ Exit

SpecV8 == InitV8 /\ [][NextV8]_vars

\* The statistics block on its own: the three counts are drawn, not queried.
InitStats ==
  /\ file1 = <<>>
  /\ file2 = <<>>
  /\ db = NoFile
  /\ script = "stats"
  /\ pc = "calc"
  /\ idx = 0
  /\ results = <<>>
  /\ log \in { << [matches |-> m, dd_field_count |-> d, ad_field_count |-> a] >> :
               m \in 0..MaxCount, d \in 0..MaxCount, a \in 0..MaxCount }
  /\ outcome = ""
  /\ match_results = EmptyDir
  /\ unwritable = {}
  /\ missing = {}
  /\ tmp = {}

StatsCalc ==
  /\ script = "stats"
  /\ pc = "calc"
  /\ LET st == CalculateStatistics(log[1].matches, log[1].dd_field_count,
                                   log[1].ad_field_count)
     IN /\ results' = <<st>>
        /\ outcome' = IF StatisticsRaised(st) THEN "ZeroDivisionError" ELSE "ok"
  /\ pc' = "done"
  /\ UNCHANGED <<match_results, unwritable, missing, tmp, file1, file2, db, script, idx, log>>

NextStats == StatsCalc

SpecStats == InitStats /\ [][NextStats]_vars

\* validate_email_hashes on its own: log holds the list of samples.
InitHash ==
  /\ file1 = <<>>
  /\ file2 = <<>>
  /\ db = NoFile
  /\ script = "hash"
  /\ pc = "validate"
  /\ idx = 0
  /\ results = <<>>
  /\ log \in SampleLists
  /\ outcome = ""
  /\ match_results = EmptyDir
  /\ unwritable = {}
  /\ missing = {}
  /\ tmp = {}

HashValidate ==
  /\ script = "hash"
  /\ pc = "validate"
  /\ LET r == validate_email_hashes(log)
     IN /\ results' = <<r>>
        /\ outcome' = IF r.raised THEN "AttributeError" ELSE "ok"
  /\ pc' = "done"
  /\ UNCHANGED <<match_results, unwritable, missing, tmp, file1, file2, db, script, idx, log>>

NextHash == HashValidate

SpecHash == InitHash /\ [][NextHash]_vars

\* Runs of comprehensive_match_analysis_v1.py: either source file may be absent.
InitV1 ==
  /\ file1 \in DDFiles
  /\ file2 \in ACFiles
  /\ missing \in SUBSET {"file1", "file2"}
  /\ tmp = {}
  /\ "file1" \in missing => file1 = <<>>
  /\ "file2" \in missing => file2 = <<>>
  /\ db = NoFile
  /\ script = ""
  /\ pc = "idle"
  /\ idx = 0
  /\ results = <<>>
  /\ log = <<>>
  /\ outcome = ""
  /\ match_results = EmptyDir
  /\ unwritable = {}

NextV1 ==
  \/ V1Start
  \/ V1Connect
  \/ V1DirectKey
  \/ V1ConcatKey
  \/ V1AllFields
  \/ V1Statistics
  \/ Exit

SpecV1 == InitV1 /\ [][NextV1]_vars

\* The source row that holds the columns of a loaded datadirect row.
AsSourceDD(l) ==
  DDRow(l.title, l.first_name, l.surname, l.email_std, l.email_hash, l.mobile, l.suburb, NULL)

AsSourceAC(l) ==
  ACRow(l.title, l.first_name, l.surname, l.email_std, l.email_hash, l.mobile, l.suburb, NULL)

\* The SELECT lists of create_optimized_database over one row of each file:
\* one value in the surname and another in every other text column.
InitNormalize ==
  /\ \E v \in ColumnValues : \E w \in SurnameValues :
       /\ file1 = <<DDRow(v, v, w, v, v, v, v, NULL)>>
       /\ file2 = <<ACRow(v, v, w, v, v, v, v, NULL)>>
  /\ db = NoFile
  /\ script = ""
  /\ pc = "idle"
  /\ idx = 0
  /\ results = <<>>
  /\ log = <<>>
  /\ outcome = ""
  /\ match_results = EmptyDir
  /\ unwritable = {}
  /\ missing = {}
  /\ tmp = {}

\* The SELECT lists applied to the rows of the files.
NormalizeLoad ==
  /\ pc = "idle"
  /\ script' = "normalize"
  /\ results' = <<[dd |-> LoadDD(file1[1]), ac |-> LoadAC(file2[1])]>>
  /\ pc' = "loaded"
  /\ UNCHANGED <<match_results, unwritable, missing, tmp, file1, file2, db, idx, log, outcome>>

\* The SELECT lists applied to the rows they produced.
NormalizeReload ==
  /\ script = "normalize"
  /\ pc = "loaded"
  /\ results' = Append(results, [dd |-> LoadDD(AsSourceDD(results[1].dd)),
                                 ac |-> LoadAC(AsSourceAC(results[1].ac))])
  /\ pc' = "done"
  /\ outcome' = "ok"
  /\ UNCHANGED <<match_results, unwritable, missing, tmp, file1, file2, db, script, idx, log>>

NextNormalize == NormalizeLoad \/ NormalizeReload

SpecNormalize == InitNormalize /\ [][NextNormalize]_vars

\* First names and surnames as the files may hold them: NULL and the texts of
\* up to two characters, blanks among them.
NameValues == {NULL} \cup UNION { { T(t) : t \in [1..n -> {" ", "a", "b"}] } : n \in 0..2 }

\* The SELECT lists of create_optimized_database over one record of each file,
\* the two records with names of their own.
InitFullName ==
  /\ \E f1 \in NameValues : \E s1 \in NameValues :
       file1 = <<DDRow(NULL, f1, s1, NULL, NULL, NULL, NULL, NULL)>>
  /\ \E f2 \in NameValues : \E s2 \in NameValues :
       file2 = <<ACRow(NULL, f2, s2, NULL, NULL, NULL, NULL, NULL)>>
  /\ db = NoFile
  /\ script = ""
  /\ pc = "idle"
  /\ idx = 0
  /\ results = <<>>
  /\ log = <<>>
  /\ outcome = ""
  /\ match_results = EmptyDir
  /\ unwritable = {}
  /\ missing = {}
  /\ tmp = {}

SpecFullName == InitFullName /\ [][NextNormalize]_vars

\* The files of one delivery: no record, the plain record, or the record with
\* no surname.
DeliveredDD == { <<>>, <<DDUniverse[1]>>, <<DDUniverse[4]>> }

DeliveredAC == { <<>>, <<ACUniverse[1]>>, <<ACUniverse[4]>> }

\* Between two invocations the parquet files are replaced by a new delivery
\* and match_analysis.duckdb is deleted so that the next run rebuilds it; the
\* files under match_results stay.
NewDelivery ==
  /\ pc = "idle"
  /\ db.exists
  /\ file1' \in DeliveredDD
  /\ file2' \in DeliveredAC
  /\ <<file1', file2'>> # <<file1, file2>>
  /\ db' = NoFile
  /\ UNCHANGED <<match_results, unwritable, missing, tmp, script, pc, idx, results, log, outcome>>

\* Between two invocations an output file becomes unwritable or writable
\* again: the COPY to it raises inside the try of its export loop.
PermissionsChange ==
  /\ pc = "idle"
  /\ unwritable' \in UnwritableChoices \ {unwritable}
  /\ UNCHANGED <<match_results, missing, tmp, file1, file2, db, script, pc, idx, results, log,
                 outcome>>

\* Successive invocations of comprehensive_match_analysis_v8 over deliveries.
InitStale ==
  /\ file1 \in DeliveredDD
  /\ file2 \in DeliveredAC
  /\ db = LoadedDb(file1, file2)
  /\ script = ""
  /\ pc = "idle"
  /\ idx = 0
  /\ results = <<>>
  /\ log = <<>>
  /\ outcome = ""
  /\ match_results = EmptyDir
  /\ unwritable = {}
  /\ missing = {}
  /\ tmp = {}

NextStale == NextV8 \/ NewDelivery \/ PermissionsChange

SpecStale == InitStale /\ [][NextStale]_vars

\* Calls of profile_parquet_chunked on the DataDirect file.
InitProfiler ==
  /\ file1 \in DDFiles
  /\ file2 = <<>>
  /\ missing \in SUBSET {"file1"}
  /\ "file1" \in missing => file1 = <<>>
  /\ tmp = {}
  /\ db = NoFile
  /\ script = ""
  /\ pc = "idle"
  /\ idx = 0
  /\ results = <<>>
  /\ log = <<>>
  /\ outcome = ""
  /\ match_results = EmptyDir
  /\ unwritable = {}

NextProfiler ==
  \/ ProfileStart
  \/ ProfileSmall
  \/ ProfileSample
  \/ ProfileSave
  \/ Exit

SpecProfiler == InitProfiler /\ [][NextProfiler]_vars

\* Runs of comprehensive_match_analysis_v11.py
NextV11 ==
  \/ V11Create
  \/ V11Key
  \/ V11Close
  \/ V11Extract
  \/ Exit

SpecV11 == Init /\ [][NextV11]_vars

\* Files for the coverage counts of analyze_compound_matches: a plain row, a
\* row with no surname, and a row with a name and a suburb but no postcode.
DDCoverageFiles ==
  LET u == <<DDUniverse[1], DDUniverse[4],
             DDRow(NULL, T(<<"a">>), T(<<"b">>), NULL, NULL, NULL, T(<<"c">>), NULL)>>
  IN { [i \in DOMAIN p |-> u[p[i]]] : p \in Picks(Len(u)) }

ACCoverageFiles ==
  LET u == <<ACUniverse[1], ACUniverse[4],
             ACRow(NULL, T(<<"a">>), T(<<"b">>), NULL, NULL, NULL, T(<<"c">>), NULL)>>
  IN { [i \in DOMAIN p |-> u[p[i]]] : p \in Picks(Len(u)) }

InitCoverage ==
  /\ file1 \in DDCoverageFiles
  /\ file2 \in ACCoverageFiles
  /\ db \in {NoFile, LoadedDb(file1, file2)}
  /\ script = ""
  /\ pc = "idle"
  /\ idx = 0
  /\ results = <<>>
  /\ log = <<>>
  /\ outcome = ""
  /\ match_results = EmptyDir
  /\ unwritable = {}
  /\ missing = {}
  /\ tmp = {}

\* Runs of compound_match_analysis.py over those files.
SpecCoverage == InitCoverage /\ [][NextCompound]_vars

-----------------------------------------------------------------------------
(* The claims *)

D == db.datadirect

A == db.ad_consumers

\* The non-null values of a column.
KeyValues(tbl, col) == { tbl[i][col] : i \in DOMAIN tbl } \ {NULL}

GroupSize(tbl, col, v) == Cardinality({ i \in DOMAIN tbl : tbl[i][col] = v })

RECURSIVE SumOfGroupProducts(_, _, _, _)
SumOfGroupProducts(S, dtbl, atbl, col) ==
  IF S = {} THEN 0
  ELSE LET v == CHOOSE x \in S : TRUE
       IN GroupSize(dtbl, col, v) * GroupSize(atbl, col, v)
          + SumOfGroupProducts(S \ {v}, dtbl, atbl, col)

KeyCol(i) == direct_matches[i].cond[1].d

\* C1: for every key of direct_matches, the matches count of the inner join of
\* v10 is the sum, over the non-null key values present on both sides, of
\* (DataDirect rows with that value) x (Ad_consumers rows with that value).
C1_MatchesSumGroupProducts ==
  script = "v10" =>
    \A i \in DOMAIN log :
      log[i].matches =
        SumOfGroupProducts(KeyValues(D, KeyCol(i)) \cap KeyValues(A, KeyCol(i)),
                           D, A, KeyCol(i))

\* Two rows on each side share one key value: it contributes 4, not 2.
C1_Witness ==
  /\ script = "v10"
  /\ \E i \in DOMAIN log :
       /\ log[i].matches = 4
       /\ \E v \in KeyValues(D, KeyCol(i)) :
            GroupSize(D, KeyCol(i), v) = 2 /\ GroupSize(A, KeyCol(i), v) = 2

Unique(tbl, col) ==
  \A i \in DOMAIN tbl : \A j \in DOMAIN tbl :
    (i # j /\ ~IsNull(tbl[i][col])) => tbl[i][col] # tbl[j][col]

\* C2: in generate_detailed_match_report, for a field whose non-null values are
\* unique within each table, matches + dd_only = dd_field_count and
\* matches + ad_only = ad_field_count.
C2_OverlapAccounting ==
  script = "report" =>
    \A i \in DOMAIN results :
      (Unique(D, match_fields[i].col) /\ Unique(A, match_fields[i].col)) =>
        /\ results[i].total_matches + results[i].dd_only_records
             = results[i].dd_total_records
        /\ results[i].total_matches + results[i].ad_only_records
             = results[i].ad_total_records

\* A unique key with a matched row and an unmatched row in datadirect, and a
\* row without the key in ad_consumers.
C2_Witness ==
  /\ script = "report"
  /\ \E i \in DOMAIN results :
       /\ Unique(D, match_fields[i].col) /\ Unique(A, match_fields[i].col)
       /\ results[i].total_matches = 1
       /\ results[i].dd_only_records = 1
       /\ results[i].ad_total_records < Len(A)

Blank(x) == IsNull(x) \/ TrimText(Val(x)) = <<>>

\* C3: no pair of records is counted in the matches of a v10 key unless both
\* records have a non-blank value (not NULL, empty or whitespace) for the key.
C3_BlankNeverMatches ==
  script = "v10" =>
    \A i \in DOMAIN log :
      log[i].matches =
        Cardinality({ p \in (DOMAIN D) \X (DOMAIN A) :
                        /\ SqlEq(D[p[1]][KeyCol(i)], A[p[2]][KeyCol(i)])
                        /\ ~Blank(D[p[1]][KeyCol(i)])
                        /\ ~Blank(A[p[2]][KeyCol(i)]) })

\* The entries of log that the loop over compound_matches of v7 wrote.
V7CompoundEntries == { i \in DOMAIN log : i > Len(direct_matches) }

V7Col(i) == compound_matches[i - Len(direct_matches)].col

\* C4: a record with a NULL constituent field has no compound key and is
\* counted in neither matches nor dd_only / ac_only of that key (v7).
C4_NullKeyNotCounted ==
  script = "v7" =>
    \A i \in V7CompoundEntries :
      ~log[i].error =>
        /\ log[i].dd_only =
             Cardinality({ k \in DOMAIN D :
                             /\ ~IsNull(D[k][V7Col(i)])
                             /\ ~(\E j \in DOMAIN A : SqlEq(D[k][V7Col(i)], A[j][V7Col(i)])) })
        /\ log[i].ac_only =
             Cardinality({ j \in DOMAIN A :
                             /\ ~IsNull(A[j][V7Col(i)])
                             /\ ~(\E k \in DOMAIN D : SqlEq(D[k][V7Col(i)], A[j][V7Col(i)])) })
        /\ log[i].matches <=
             Cardinality({ p \in (DOMAIN D) \X (DOMAIN A) :
                             ~IsNull(D[p[1]][V7Col(i)]) /\ ~IsNull(A[p[2]][V7Col(i)]) })

\* The source columns of the canonical field of each entry of direct_matches
\* (FullName is a compound column and has none).
field_mapping ==
  << [d |-> "Title", a |-> "title"], [d |-> "FirstName", a |-> "given_name_1"],
     [d |-> "Surname", a |-> "surname"], [d |-> "", a |-> ""],
     [d |-> "Gender", a |-> "gender"], [d |-> "EmailStd", a |-> "email"],
     [d |-> "EmailHash", a |-> "email_sha256"], [d |-> "Mobile", a |-> "mobile_text"],
     [d |-> "Landline", a |-> "landline_text"], [d |-> "Suburb", a |-> "suburb"],
     [d |-> "State", a |-> "state"], [d |-> "Postcode", a |-> "postcode_text"] >>

RawDD(r, col) == IF col = "Postcode" THEN CastVarchar(r[col]) ELSE r[col]

\* normalize of the specification: trim, then upper-case.
Normalize(x) == UPPER(TRIM(x))

\* Two non-null raw values that differ at most in letter case and in
\* surrounding whitespace.
SameUpToCaseAndBlanks(x, y) == ~IsNull(x) /\ ~IsNull(y) /\ Normalize(x) = Normalize(y)

\* C5: for every canonical field, two raw values that differ only in letter
\* case or surrounding whitespace are stored as the same normalized value in
\* both tables, and a one-record / one-record input with such values yields
\* matches = 1, dd_only = 0, ac_only = 0 for that field's key (v10).
C5_CaseAndBlanksMatch ==
  (Len(file1) = 1 /\ Len(file2) = 1) =>
    \A i \in DOMAIN field_mapping :
      (/\ field_mapping[i].d # ""
       /\ SameUpToCaseAndBlanks(RawDD(file1[1], field_mapping[i].d),
                                file2[1][field_mapping[i].a])) =>
        /\ (db.loaded /\ Len(D) = 1 /\ Len(A) = 1) =>
             D[1][KeyCol(i)] = A[1][KeyCol(i)]
        /\ (script = "v10" /\ i \in DOMAIN log) =>
             log[i].matches = 1 /\ log[i].dd_only = 0 /\ log[i].ac_only = 0

\* C6: for every stored record whose constituent fields are all non-null, each
\* compound column is the individually normalized field values joined by
\* exactly one space, in the listed order, on both sides.
CompoundOfNormalized(r) ==
  /\ (~IsNull(r.first_name) /\ ~IsNull(r.surname)) =>
       r.full_name = Sp(Normalize(r.first_name), Normalize(r.surname))
  /\ (~IsNull(r.first_name) /\ ~IsNull(r.surname) /\ ~IsNull(r.suburb) /\ ~IsNull(r.postcode)) =>
       r.name_suburb_postcode =
         Sp(Sp(Sp(Normalize(r.first_name), Normalize(r.surname)), Normalize(r.suburb)),
            Normalize(r.postcode))
  /\ (/\ ~IsNull(r.first_name) /\ ~IsNull(r.surname) /\ ~IsNull(r.suburb)
      /\ ~IsNull(r.postcode) /\ ~IsNull(r.mobile)) =>
       r.name_suburb_postcode_mobile =
         Sp(Sp(Sp(Sp(Normalize(r.first_name), Normalize(r.surname)), Normalize(r.suburb)),
               Normalize(r.postcode)), Normalize(r.mobile))

C6_CompoundOfNormalized ==
  db.loaded =>
    /\ \A i \in DOMAIN D : CompoundOfNormalized(D[i])
    /\ \A j \in DOMAIN A : CompoundOfNormalized(A[j])

CondCols(key) == [i \in DOMAIN key.cond |-> key.cond[i].a]

\* C7: in analyze_compound_matches, ad_only counts exactly the ad_consumers
\* records in which all of the key's fields are non-null and for which no
\* datadirect record is equal on all of those fields.
C7_AdOnlySymmetric ==
  script = "compound" =>
    \A i \in DOMAIN results :
      results[i].ad_only =
        Cardinality({ j \in DOMAIN A :
                        /\ \A k \in DOMAIN compound_fields[i].cond :
                             ~IsNull(A[j][CondCols(compound_fields[i])[k]])
                        /\ ~(\E d \in DOMAIN D :
                               CondHolds(compound_fields[i].cond, D[d], A[j])) })

ResultKey(r) == CHOOSE i \in DOMAIN direct_matches : direct_matches[i].name = r.match_name

\* 100 * matches / total, and 0 when the total is 0.
RateIs(rate, matches, total) ==
  IF total = 0 THEN RatEq(rate, Zero) ELSE RatEq(rate, Ratio(100 * matches, total))

\* C8: the match rates v10 reports for a key are 100 * matches over the number
\* of that side's records with a non-null value for the key.
C8_RatesOverRecordsWithKey ==
  script = "v10" =>
    \A i \in DOMAIN results :
      /\ RateIs(results[i].dd_match_rate, results[i].matches,
                FieldCount(D, KeyCol(ResultKey(results[i]))))
      /\ RateIs(results[i].ac_match_rate, results[i].matches,
                FieldCount(A, KeyCol(ResultKey(results[i]))))

\* C9: over all triples of non-negative counts no statistic raises, each is 0
\* when its denominator is 0, and the match rates and the Jaccard index are 0
\* when matches = 0.
C9_StatisticsTotal ==
  (script = "stats" /\ pc = "done") =>
    LET m == log[1].matches
        d == log[1].dd_field_count
        a == log[1].ad_field_count
        st == results[1]
    IN /\ outcome = "ok"
       /\ ~StatisticsRaised(st)
       /\ d = 0 => st.dd_match_rate = Zero
       /\ a = 0 => st.ad_match_rate = Zero
       /\ IntMin(d, a) = 0 => st.overlap_coefficient = Zero
       /\ d + a - m = 0 => st.jaccard_index = Zero
       /\ m = 0 => /\ RatEq(st.dd_match_rate, Zero)
                   /\ RatEq(st.ad_match_rate, Zero)
                   /\ RatEq(st.jaccard_index, Zero)

\* The union is empty although there are matches: the guarded Jaccard is 0.
C9_Witness ==
  /\ script = "stats"
  /\ pc = "done"
  /\ log[1].matches = 2
  /\ log[1].dd_field_count = 1
  /\ log[1].ad_field_count = 1
  /\ results[1].jaccard_index = Zero

\* C10: if either table has no non-null value for a requested field, the
\* report script still runs to completion, with zero statistics for the field.
C10_ReportSurvivesEmptyKey ==
  (/\ script = "report" /\ pc = "done" /\ db.loaded
   /\ \E i \in DOMAIN match_fields :
        FieldCount(D, match_fields[i].col) = 0 \/ FieldCount(A, match_fields[i].col) = 0) =>
    /\ outcome = "ok"
    /\ \A i \in DOMAIN results :
         (results[i].dd_total_records = 0 \/ results[i].ad_total_records = 0) =>
           /\ RatEq(results[i].dd_match_rate, Zero)
           /\ RatEq(results[i].ad_match_rate, Zero)
           /\ RatEq(results[i].overlap_coefficient, Zero)
           /\ RatEq(results[i].jaccard_index, Zero)

\* C11: a finished run of v10 holds one result entry for every key of
\* direct_matches, the keys whose computation or result construction failed
\* included.
C11_ResultForEveryKey ==
  (script = "v10" /\ pc = "done" /\ outcome = "ok") =>
    \A i \in DOMAIN direct_matches :
      \E k \in DOMAIN results : results[k].match_name = direct_matches[i].name

\* C12: in v10 a key whose processing raised is followed by the processing of
\* every later key, and the run ends with conn.close() (outcome "ok").
C12_FailureIsolated ==
  script = "v10" =>
    /\ pc = "direct" => idx = Len(log) + 1
    /\ \A i \in DOMAIN log : log[i].match_name = direct_matches[i].name
    /\ pc = "done" => (outcome = "ok" /\ Len(log) = Len(direct_matches))

\* A run that got past a key whose result construction raised, to the end.
C12_Witness ==
  /\ script = "v10"
  /\ pc = "done"
  /\ outcome = "ok"
  /\ \E i \in DOMAIN log : log[i].error /\ i < Len(log) /\ ~log[Len(log)].error

\* What a MatchResult says apart from the name of its key.
ResultBody(r) ==
  [matches |-> r.matches, dd_only |-> r.dd_only, ac_only |-> r.ac_only,
   dd_match_rate |-> r.dd_match_rate, ac_match_rate |-> r.ac_match_rate]

\* A key one of whose export files was not produced.
ExportMissing(name) ==
  \E kind \in {"matches", "dd_only", "ac_only"} : ~match_results[<<kind, name>>].exists

\* A key whose three files were exported and whose inner join is empty.
ComputedZero(name) ==
  /\ ~ExportMissing(name)
  /\ match_results[<<"matches", name>>].rows = 0

\* C13: in v8 the result of a key whose export failed or was never produced
\* differs from the result of a key that was computed and has zero matches.
C13_FailedExportDistinguishable ==
  (script = "v8" /\ pc = "done" /\ outcome = "ok") =>
    \A i \in DOMAIN results : \A j \in DOMAIN results :
      (ExportMissing(results[i].match_name) /\ ComputedZero(results[j].match_name)) =>
        ResultBody(results[i]) # ResultBody(results[j])

\* The validity flags a result over a one-sample list shows: both "True" when
\* the sample was counted valid, else the flags of its mismatch entry.
ObservedFlags(r) ==
  IF r.total_records = 0 THEN [dd_valid |-> "skipped", ad_valid |-> "skipped"]
  ELSE IF r.valid_hashes = 1 THEN [dd_valid |-> "True", ad_valid |-> "True"]
  ELSE [dd_valid |-> r.sample_mismatches[1].dd_valid,
        ad_valid |-> r.sample_mismatches[1].ad_valid]

FlagsOf(sample) == ObservedFlags(validate_email_hashes(<<sample>>))

\* The flags of the k-th sample of the run: read off the run's own result when
\* the list has one sample.
RunFlags(k) == IF Len(log) = 1 THEN ObservedFlags(results[1]) ELSE FlagsOf(log[k])

HexChars == {"0", "a", "b", "c", "B"}

\* The texts that differ from h in exactly one character.
Changed(h) ==
  UNION { { [h EXCEPT ![i] = c] : c \in { x \in HexChars : x # h[i] } } : i \in DOMAIN h }

\* Those of them whose changed character differs by more than its letter case.
Corrupted(h) ==
  UNION { { [h EXCEPT ![i] = c] : c \in { x \in HexChars : Upper(x) # Upper(h[i]) } }
          : i \in DOMAIN h }

\* C14 as stated: the sides are independent, and changing any one character
\* of a valid stored hash makes that side, and only that side, invalid.
C14_AnyChangeInvalidates ==
  (script = "hash" /\ pc = "done") =>
    \A k \in DOMAIN log :
      LET flags == RunFlags(k) IN
      /\ \A h \in DDHashes \cup ADHashes :
           /\ FlagsOf([log[k] EXCEPT !.dd_hash = h]).ad_valid = flags.ad_valid
           /\ FlagsOf([log[k] EXCEPT !.ad_hash = h]).dd_valid = flags.dd_valid
      /\ flags.dd_valid = "True" =>
           \A c \in Changed(Val(log[k].dd_hash)) :
             LET changed == FlagsOf([log[k] EXCEPT !.dd_hash = T(c)]) IN
             changed.dd_valid = "False" /\ changed.ad_valid = flags.ad_valid
      /\ flags.ad_valid = "True" =>
           \A c \in Changed(Val(log[k].ad_hash)) :
             LET changed == FlagsOf([log[k] EXCEPT !.ad_hash = T(c)]) IN
             changed.ad_valid = "False" /\ changed.dd_valid = flags.dd_valid

\* C14 (amended): ad_valid is the same for inputs that differ only in dd_hash,
\* dd_valid is the same for inputs that differ only in ad_hash, and changing one
\* character of a valid stored hash to a character that is not the same letter
\* in the other case makes that side, and only it, invalid.
C14_SidesIndependent ==
  (script = "hash" /\ pc = "done") =>
    \A k \in DOMAIN log :
      LET flags == RunFlags(k) IN
      /\ \A h \in DDHashes \cup ADHashes :
           /\ FlagsOf([log[k] EXCEPT !.dd_hash = h]).ad_valid = flags.ad_valid
           /\ FlagsOf([log[k] EXCEPT !.ad_hash = h]).dd_valid = flags.dd_valid
      /\ flags.dd_valid = "True" =>
           \A c \in Corrupted(Val(log[k].dd_hash)) :
             LET changed == FlagsOf([log[k] EXCEPT !.dd_hash = T(c)]) IN
             changed.dd_valid = "False" /\ changed.ad_valid = flags.ad_valid
      /\ flags.ad_valid = "True" =>
           \A c \in Corrupted(Val(log[k].ad_hash)) :
             LET changed == FlagsOf([log[k] EXCEPT !.ad_hash = T(c)]) IN
             changed.ad_valid = "False" /\ changed.dd_valid = flags.dd_valid

\* One sample whose Ad_consumers hash is valid and whose DataDirect hash is the
\* valid one with a character changed.
C14_Witness ==
  /\ script = "hash"
  /\ pc = "done"
  /\ Len(log) = 1
  /\ ObservedFlags(results[1]) = [dd_valid |-> "False", ad_valid |-> "True"]
  /\ log[1].dd_hash = T(<<"a", "c">>)

NonBlank(email) == ~IsNull(email) /\ TrimText(Val(email)) # <<>>

\* The stored hash is non-empty and is SHA-256(lower(trim(email))) up to case.
HashMatches(hash, email) ==
  /\ ~IsNull(hash)
  /\ Val(hash) # <<>>
  /\ LowerText(Val(hash)) = Sha256Hex(LowerText(TrimText(Val(email))))

BothMatch(sample) ==
  HashMatches(sample.dd_hash, sample.dd_email) /\ HashMatches(sample.ad_hash, sample.dd_email)

\* C15: valid_hashes counts the pairs with a non-blank email whose two hashes
\* match, invalid_hashes those with at least one that does not, and
\* total_records is their sum.
C15_CountsPartition ==
  (script = "hash" /\ pc = "done") =>
    /\ results[1].valid_hashes =
         Cardinality({ k \in DOMAIN log : NonBlank(log[k].dd_email) /\ BothMatch(log[k]) })
    /\ results[1].invalid_hashes =
         Cardinality({ k \in DOMAIN log : NonBlank(log[k].dd_email) /\ ~BothMatch(log[k]) })
    /\ results[1].total_records = results[1].valid_hashes + results[1].invalid_hashes

\* A list with a valid pair, and a pair with a blank email that is not counted.
C15_Witness ==
  /\ script = "hash"
  /\ pc = "done"
  /\ Len(log) = 2
  /\ results[1].valid_hashes = 1
  /\ results[1].total_records = 1
  /\ \E k \in DOMAIN log : ~NonBlank(log[k].dd_email)

\* C16: a side is valid iff its stored hash is non-empty and equals the digest
\* of the trimmed, lower-cased email up to letter case; any other stored value
\* is counted invalid and the function does not raise.
C16_ValidIffDigest ==
  (script = "hash" /\ pc = "done") =>
    /\ outcome = "ok"
    /\ \A k \in DOMAIN log :
         NonBlank(log[k].dd_email) =>
           /\ RunFlags(k).dd_valid = "True" <=> HashMatches(log[k].dd_hash, log[k].dd_email)
           /\ RunFlags(k).ad_valid = "True" <=> HashMatches(log[k].ad_hash, log[k].dd_email)
           /\ ~BothMatch(log[k]) => validate_email_hashes(<<log[k]>>).invalid_hashes = 1

\* A NULL hash on one side and a text that is no digest on the other.
C16_Witness ==
  /\ script = "hash"
  /\ pc = "done"
  /\ outcome = "ok"
  /\ Len(log) = 1
  /\ NonBlank(log[1].dd_email)
  /\ log[1].dd_hash = NULL
  /\ log[1].ad_hash = T(<<"z">>)
  /\ results[1].invalid_hashes = 1

\* C17: in comprehensive_match_analysis_v1, when either source parquet file
\* does not exist the run ends with FileNotFoundError, and no connection has
\* been opened, no key computed and no line printed.
C17_MissingFileAborts ==
  (script = "v1" /\ missing # {}) =>
    /\ pc = "done"
    /\ outcome = "FileNotFoundError"
    /\ results = <<>>
    /\ \A i \in DOMAIN log : log[i].event = "error"

\* A run that found file1 and not file2.
C17_Witness ==
  /\ script = "v1"
  /\ missing = {"file2"}
  /\ outcome = "FileNotFoundError"
  /\ log = <<Event("error", "Ad_consumers file not found")>>

\* C18: in generate_detailed_match_report, for a field whose non-null values
\* are unique within each table, matches <= min(dd_field_count, ad_field_count).
C18_MatchesAtMostMin ==
  script = "report" =>
    \A i \in DOMAIN results :
      (Unique(D, match_fields[i].col) /\ Unique(A, match_fields[i].col)) =>
        results[i].total_matches
          <= IntMin(results[i].dd_total_records, results[i].ad_total_records)

\* A unique key that two datadirect rows and one ad_consumers row have, with
\* one match: the bound is reached on the smaller side only.
C18_Witness ==
  /\ script = "report"
  /\ \E i \in DOMAIN results :
       /\ Unique(D, match_fields[i].col) /\ Unique(A, match_fields[i].col)
       /\ results[i].total_matches = 1
       /\ results[i].dd_total_records = 2
       /\ results[i].ad_total_records = 1

\* The columns create_optimized_database loads as UPPER(TRIM(column)).
UpperTrimColumns == {"title", "first_name", "surname", "email_std", "email_hash", "suburb"}

\* C19: UPPER(TRIM(v)) as create_optimized_database applies it is idempotent:
\* applied to a value it produced it returns that value, for every text and
\* for NULL.
C19_NormalizationIdempotent ==
  (script = "normalize" /\ pc = "done") =>
    \A col \in UpperTrimColumns :
      /\ results[2].dd[col] = results[1].dd[col]
      /\ results[2].ac[col] = results[1].ac[col]

\* A text with blanks at both ends and inside and a lower-case letter, whose
\* normal form differs from it.
C19_Witness ==
  /\ script = "normalize"
  /\ pc = "done"
  /\ file1[1].FirstName = T(<<" ", "a", " ">>)
  /\ results[1].dd.first_name = T(<<"A">>)
  /\ results[2].dd.first_name = T(<<"A">>)

\* The record with its first name and surname exchanged: the key built from
\* [surname, first_name] is the full_name of this record.
SwapNamesDD(r) == [r EXCEPT !.FirstName = r.Surname, !.Surname = r.FirstName]

SwapNamesAC(r) == [r EXCEPT !.given_name_1 = r.surname, !.surname = r.given_name_1]

\* C20 as stated: for every record with non-null first name and surname the
\* compound key built from [first_name, surname] differs from the key built
\* from [surname, first_name].
C20_OrderAlwaysDiffers ==
  (script = "normalize" /\ pc = "done") =>
    /\ (~IsNull(file1[1].FirstName) /\ ~IsNull(file1[1].Surname)) =>
         results[1].dd.full_name # LoadDD(SwapNamesDD(file1[1])).full_name
    /\ (~IsNull(file2[1].given_name_1) /\ ~IsNull(file2[1].surname)) =>
         results[1].ac.full_name # LoadAC(SwapNamesAC(file2[1])).full_name

\* A name of one word: not NULL, not empty, no blank in it.
OneWord(x) == ~IsNull(x) /\ Val(x) # <<>> /\ \A i \in DOMAIN Val(x) : Val(x)[i] # " "

\* C20 (amended): for every record whose first name and surname are single
\* words that differ by more than letter case, the compound key built from
\* [first_name, surname] differs from the key built from [surname, first_name].
C20_OrderDiffersForDistinctWords ==
  (script = "normalize" /\ pc = "done") =>
    /\ ( /\ OneWord(file1[1].FirstName) /\ OneWord(file1[1].Surname)
         /\ UPPER(file1[1].FirstName) # UPPER(file1[1].Surname) ) =>
         results[1].dd.full_name # LoadDD(SwapNamesDD(file1[1])).full_name
    /\ ( /\ OneWord(file2[1].given_name_1) /\ OneWord(file2[1].surname)
         /\ UPPER(file2[1].given_name_1) # UPPER(file2[1].surname) ) =>
         results[1].ac.full_name # LoadAC(SwapNamesAC(file2[1])).full_name

\* First name 'a', surname 'b': the keys are 'A B' and 'B A'.
C20_Witness ==
  /\ script = "normalize"
  /\ pc = "done"
  /\ file1[1].FirstName = T(<<"a">>)
  /\ file1[1].Surname = T(<<"b">>)
  /\ results[1].dd.full_name = T(<<"A", " ", "B">>)
  /\ LoadDD(SwapNamesDD(file1[1])).full_name = T(<<"B", " ", "A">>)

\* C21: the temporary sample file profile_parquet_chunked writes for a large
\* input no longer exists when the function exits, whether it returns or
\* raises while profiling.
C21_TempFileRemoved ==
  (script = "profiler" /\ pc = "done" /\ Event("to_parquet", temp_file) \in Range(log)) =>
    temp_file \notin tmp

\* The source records of DataDirect that have an email no Ad_consumers source
\* record has (up to the load-time normalisation).
UnmatchedEmails ==
  { k \in DOMAIN file1 :
      /\ ~IsNull(file1[k].EmailStd)
      /\ ~(\E j \in DOMAIN file2 :
             SqlEq(UPPER(TRIM(file1[k].EmailStd)), UPPER(TRIM(file2[j].email)))) }

\* C22: with the tables built by create_optimized_database, every DataDirect
\* record with a non-null email and no equal Ad_consumers email is counted in
\* dd_only of the EmailStd key, whether or not its Title, FirstName and Surname
\* are NULL.
C22_EveryRecordEligible ==
  script = "v10" =>
    \A i \in DOMAIN results :
      results[i].match_name = "EmailStd" =>
        Cardinality(UnmatchedEmails) <= results[i].dd_only

\* C23: in v11, for every key whose inner-join query and two anti-join queries
\* succeed, exactly one AntiJoinResult is appended to direct_results and the
\* key's line is printed.
C23_ResultForEverySuccessfulKey ==
  script = "v11" =>
    \A i \in DOMAIN log :
      (log[i].event = "key" /\ log[i].queries_ok) =>
        /\ Cardinality({ j \in DOMAIN results : results[j].match_name = log[i].name }) = 1
        /\ log[i].printed

\* The pairs of records equal on every field of the key (so non-null in all).
KeyPairs(key) ==
  { p \in (DOMAIN D) \X (DOMAIN A) : CondHolds(key.cond, D[p[1]], A[p[2]]) }

\* C24: in analyze_compound_matches, dd_total and ad_total of a compound key
\* count the records of the table in which all the fields of that key are
\* non-null, no other field being required, and the match count applies the
\* same eligibility.
C24_TotalsOverKeyFields ==
  script = "compound" =>
    \A i \in DOMAIN results :
      /\ results[i].dd_total = CoverageCount(D, CondCols(compound_fields[i]))
      /\ results[i].ad_total = CoverageCount(A, CondCols(compound_fields[i]))
      /\ results[i].matches = Cardinality(KeyPairs(compound_fields[i]))


\* C25: for every entry of direct_matches the filter derived for the DD
\* anti-join tests exactly the key's DataDirect columns and the one derived
\* for the AC anti-join tests exactly the key's Ad_consumers columns.
FilterColumns(filter) == { filter[i][2] : i \in DOMAIN filter }

C25_FiltersOnOwnColumns ==
  (script = "v1" /\ pc = "direct") =>
    LET key == direct_matches_v1[idx]
    IN /\ FilterColumns(V1DDFilter(key)) = Range(key.d)
       /\ FilterColumns(V1ACFilter(key)) = Range(key.a)

\* The rows of `tbl` with a non-null value in `col`.
WithKey(tbl, col) == { k \in DOMAIN tbl : ~IsNull(tbl[k][col]) }

\* The rows of `tbl` whose value in `col` some row of `other` equals.
WithPartner(tbl, other, col) ==
  { k \in DOMAIN tbl : \E j \in DOMAIN other : SqlEq(tbl[k][col], other[j][col]) }

\* C26: for every single-field key of v10, duplicates allowed, the DataDirect
\* rows with a non-null key are split into those counted in dd_only and those
\* with at least one Ad_consumers row of equal key: dd_only plus the number of
\* rows with a partner is the number of rows with the key; likewise ac_only.
C26_AntiJoinPartition ==
  script = "v10" =>
    \A i \in DOMAIN log :
      /\ log[i].dd_only + Cardinality(WithPartner(D, A, KeyCol(i)))
           = Cardinality(WithKey(D, KeyCol(i)))
      /\ log[i].ac_only + Cardinality(WithPartner(A, D, KeyCol(i)))
           = Cardinality(WithKey(A, KeyCol(i)))

\* One DataDirect row with two partners and one with a key and no partner.
C26_Witness ==
  /\ script = "v10"
  /\ \E i \in DOMAIN log :
       /\ log[i].dd_only = 1
       /\ log[i].matches = 2
       /\ Cardinality(WithPartner(D, A, KeyCol(i))) = 1
       /\ Cardinality(WithPartner(A, D, KeyCol(i))) = 2


\* C27: for a DataDirect and an Ad_consumers record with non-null first_name
\* and surname, the full_name columns are equal if and only if the first_name
\* columns are equal and the surname columns are equal.
C27_FullNameEquivalentToPair ==
  (script = "normalize" /\ pc = "done") =>
    LET d == results[1].dd
        a == results[1].ac
    IN (~IsNull(d.first_name) /\ ~IsNull(d.surname) /\ ~IsNull(a.first_name) /\ ~IsNull(a.surname)) =>
         (SqlEq(d.full_name, a.full_name)
            <=> (SqlEq(d.first_name, a.first_name) /\ SqlEq(d.surname, a.surname)))


InUnit(x) == RatLe(Zero, x) /\ RatLe(x, Ratio(1, 1))

InPercent(x) == RatLe(Zero, x) /\ RatLe(x, Ratio(100, 1))

\* C28: for every field of generate_detailed_match_report, duplicated key
\* values included, jaccard_index and overlap_coefficient lie in [0, 1] and
\* both match rates lie in [0, 100].
C28_RatesInRange ==
  script = "report" =>
    \A i \in DOMAIN results :
      /\ InUnit(results[i].jaccard_index)
      /\ InUnit(results[i].overlap_coefficient)
      /\ InPercent(results[i].dd_match_rate)
      /\ InPercent(results[i].ad_match_rate)


\* C29: the export and analysis queries of an invocation only run against a
\* database on which create_optimized_database ran to completion: a file left
\* by a failed creation is rebuilt by the next invocation, not reused.
C29_QueriesOnCompleteDatabase ==
  (script \in {"v8", "v10"} /\ pc \notin {"idle", "done"}) => db.complete


\* The count analyze_exported_results printed for one file of a key.
PrintedCount(r, kind) ==
  CASE kind = "matches" -> r.matches
    [] kind = "dd_only" -> r.dd_only
    [] OTHER -> r.ac_only

\* C30: after comprehensive_match_analysis_v8 returns, the matches, dd_only
\* and ac_only counts printed for a key are the sizes of the join and
\* anti-joins export_join_results computed in this invocation (0 for a file
\* that does not exist), never the rows of a file an earlier invocation left.
C30_CountsFromThisInvocation ==
  (script = "v8" /\ pc = "done" /\ outcome = "ok") =>
    \A j \in DOMAIN results : \A kind \in {"matches", "dd_only", "ac_only"} :
      LET k == CHOOSE i \in DOMAIN match_types : match_types[i] = results[j].match_name
          f == <<kind, match_types[k]>>
      IN \/ PrintedCount(results[j], kind) = ExportCount(D, A, kind, direct_matches_v8[k])
         \/ (f \in unwritable /\ ~match_results[f].exists)


====
